---- MODULE Spec2Model ----
(***************************************************************************)
(* A model of the JPEG 2000 codestream primitives of Lanzaa/jpeg2000:      *)
(*   - jpc/src/bit_reader.rs   BitReader (MSB-first bit extraction)        *)
(*   - jpc/src/tag_tree.rs     TagTreeDecoder, InclusionTagTree,           *)
(*                             ZeroPlaneTagTree                            *)
(*   - jpc/src/code_block.rs   CodeBlockDecoder (EBCOT coding passes)      *)
(* Rust panics (assert!, panic!, todo!, arithmetic overflow in a debug     *)
(* build) are modelled as the outcome "panic"; an io::Error returned with  *)
(* `?` is the outcome "err".                                               *)
(*                                                                         *)
(* An intermediate result that is used more than once is bound through a   *)
(* singleton set (CHOOSE out \in {e(x) : x \in {v}} : TRUE, or             *)
(* \E x \in {v} : ... in an action), which evaluates it exactly once.      *)
(***************************************************************************)
EXTENDS Integers, Sequences, FiniteSets, TLC

VARIABLES
  ttKind,     \* which wrapper owns the tree: "incl" (InclusionTagTree) or "zero" (ZeroPlaneTagTree)
  tt,         \* the TagTreeDecoder: max_depth, levels, item_count
  br,         \* the BitReader: reader (data, pos), last_byte, offset, bits_read
  ttLast,     \* the most recent call on the tree or the reader: its arguments, what it
              \* returned, the bits_read it added and the leaf's node before the call
  ttDriver,   \* "free": tree reads in any order; "scan": leaves visited in raster order,
              \* layer by layer; "bits": the bit reader used on its own
  ttLog,      \* under the "scan" driver, one entry per visit
  ttArray,    \* the array whose tag-tree coding the byte stream is (<< >> for a raw stream)
  cb,         \* the CodeBlockDecoder: width, height, subband, no_passes, bit_plane_shift,
              \* coefficients
  coder,      \* the Decoder handed to decode: any decoder ("free") or the tests' MockCoder
  cbPc,       \* where the code-block decoder stands: the build, the call in progress, the
              \* loop variables of decode and the decode_bit request it waits on
  cbLast,     \* the most recent decode_bit: its call site, context, decision, and the
              \* coefficients that became significant before the next decode_bit
  dwt,        \* a use of the DwtProcessor: its input, the call that has been made and
              \* what it returned
  jp2         \* a run of decode_jp2: the boxes of the file, the box it stands at, the
              \* JP2File it is building and its outcome

ttVars == <<ttKind, tt, br, ttLast, ttDriver, ttLog, ttArray>>
cbVars == <<cb, coder, cbPc, cbLast>>

vars == <<ttKind, tt, br, ttLast, ttDriver, ttLog, ttArray, cb, coder, cbPc, cbLast,
          dwt, jp2>>

\* no DwtProcessor in use, no file being decoded
NoTransform == [kind |-> "none"]
NoFile == [phase |-> "none"]

(***************************************************************************)
(* Bounds of the model.                                                    *)
(***************************************************************************)
\* the largest layer bound handed to read_for_inclusion / query_inclusion
MaxBound == 2
\* the most next_bit calls that may fail on an exhausted source before the
\* caller gives up (every failed call still bumps bits_read)
MaxOverrun == 2
\* the largest bound of the two-reads-against-one comparison on a fresh tree:
\* enough for one read to use up a whole byte of zeros
ResumeBound == 8
\* the largest value of an array whose tag-tree coding is fed to a scan
MaxVal == 2
\* the largest bit count handed to BitReader::take: one more than fits a u8
MaxTake == 9

\* u32::MAX, the bound TagTreeDecoder::read passes.  The largest integer the
\* model checker represents stands for it; no partial of a bounded stream
\* comes near either.
U32_MAX == 2147483647

Max(a, b) == IF a >= b THEN a ELSE b
Min(a, b) == IF a <= b THEN a ELSE b
DivCeil(a, b) == (a + b - 1) \div b
Pow2(n) == 2 ^ n
Reverse(s) == [i \in 1..Len(s) |-> s[Len(s) + 1 - i]]

(***************************************************************************)
(* bit_reader.rs                                                           *)
(***************************************************************************)
\* BitReader::new on a non-empty byte source: the first byte is read at once.
BitReaderNew(data) ==
  [data |-> data, pos |-> 1, last_byte |-> data[1], offset |-> 0, bits_read |-> 0]

\* next_bit reading each byte least significant bit first
next_bit_lsb_first(r) ==
  LET counted == [r EXCEPT !.bits_read = r.bits_read + 1] IN
  IF r.offset = 8 /\ r.pos >= Len(r.data)
  THEN [br |-> counted, res |-> "err", bit |-> 0]
  ELSE LET filled == IF r.offset = 8
                     THEN [counted EXCEPT !.pos = r.pos + 1,
                                          !.last_byte = r.data[r.pos + 1],
                                          !.offset = 0]
                     ELSE counted
       IN [br  |-> [filled EXCEPT !.offset = filled.offset + 1],
           res |-> "ok",
           bit |-> (filled.last_byte \div Pow2(filled.offset)) % 2]

\* next_bit handing out one bits (a synthesized 0xFF) instead of the error of
\* an exhausted source
next_bit_one_fill(r) ==
  LET counted == [r EXCEPT !.bits_read = r.bits_read + 1] IN
  IF r.offset = 8 /\ r.pos >= Len(r.data)
  THEN [br |-> counted, res |-> "ok", bit |-> 1]
  ELSE LET filled == IF r.offset = 8
                     THEN [counted EXCEPT !.pos = r.pos + 1,
                                          !.last_byte = r.data[r.pos + 1],
                                          !.offset = 0]
                     ELSE counted
           o == 7 - filled.offset
       IN [br  |-> [filled EXCEPT !.offset = filled.offset + 1],
           res |-> "ok",
           bit |-> (filled.last_byte \div Pow2(o)) % 2]

\* BitReader::next_bit: bits_read is bumped first, then the byte is refilled
\* when offset = 8 (read_exact fails at the end of the source), then the bit
\* at 7 - offset is returned.
next_bit(r) ==
  LET counted == [r EXCEPT !.bits_read = r.bits_read + 1] IN
  IF r.offset = 8 /\ r.pos >= Len(r.data)
  THEN [br |-> counted, res |-> "err", bit |-> 0]
  ELSE LET filled == IF r.offset = 8
                     THEN [counted EXCEPT !.pos = r.pos + 1,
                                          !.last_byte = r.data[r.pos + 1],
                                          !.offset = 0]
                     ELSE counted
           o == 7 - filled.offset
       IN [br  |-> [filled EXCEPT !.offset = filled.offset + 1],
           res |-> "ok",
           bit |-> (filled.last_byte \div Pow2(o)) % 2]

\* the builds of the crate: arithmetic overflow panics in a debug build and
\* wraps in a release build
Builds == {"debug", "release"}

\* the loop of BitReader::take with `left` rounds to go; out is a u8
RECURSIVE take_from(_, _, _, _)
take_from(r, out0, left, build) ==
  CHOOSE res \in {
    IF left = 0 THEN [br |-> r, res |-> "ok", out |-> out]
    ELSE IF 2 * out > 255 /\ build = "debug" THEN [br |-> r, res |-> "panic", out |-> 0]
    ELSE IF nb.res = "err" THEN [br |-> nb.br, res |-> "err", out |-> 0]
    ELSE take_from(nb.br, ((2 * out) % 256) + nb.bit, left - 1, build)
    : out \in {out0}, nb \in {next_bit(r)}} : TRUE

\* BitReader::take
take(r, arg, build) == take_from(r, 0, arg, build)

\* BitReader::bits_read
bits_read(r) == r.bits_read

(***************************************************************************)
(* tag_tree.rs                                                             *)
(***************************************************************************)
SeeParent  == [t |-> "SeeParent", v |-> 0]
AtLeast(v) == [t |-> "AtLeast", v |-> v]
Value(v)   == [t |-> "Value", v |-> v]

I2(x, y) == [x |-> x, y |-> y]

\* the while loop of TagTreeDecoder::new: one level per halving, leaves first
RECURSIVE PushLevels(_, _)
PushLevels(mw0, mh0) ==
  CHOOSE out \in {
    IF mw > 1 \/ mh > 1
    THEN LET w == Max(mw, 1)
             size == w * Max(mh, 1)
         IN <<[width |-> w, nodes |-> [i \in 1..size |-> SeeParent]]>>
            \o PushLevels(DivCeil(mw, 2), DivCeil(mh, 2))
    ELSE << >> : mw \in {mw0}, mh \in {mh0}} : TRUE

\* TagTreeDecoder::new
TagTreeDecoderNew(width, height) ==
  LET pushed == PushLevels(width, height)
                  \o <<[width |-> 1, nodes |-> <<AtLeast(0)>>]>>
  IN [max_depth  |-> Len(pushed) - 1,
      levels     |-> Reverse(pushed),
      item_count |-> width * height]

\* TagTreeDecoder::node
node(t, dim_idx, level) ==
  LET lv == t.levels[level + 1]
  IN lv.nodes[dim_idx.y * lv.width + dim_idx.x + 1]

\* TagTreeDecoder::node_mut followed by the assignment through it
node_mut(t, dim_idx, level, n) ==
  LET lv == t.levels[level + 1]
  IN [t EXCEPT !.levels[level + 1].nodes[dim_idx.y * lv.width + dim_idx.x + 1] = n]

\* the `while partial <= bound` loop of read_until_bound
RECURSIVE ReadLoop(_, _, _)
ReadLoop(r, partial0, bound) ==
  CHOOSE out \in {
    IF partial <= bound
    THEN IF nb.res = "err" THEN [br |-> nb.br, res |-> "err", partial |-> partial]
         ELSE IF nb.bit = 1 THEN [br |-> nb.br, res |-> "value", partial |-> partial]
         ELSE ReadLoop(nb.br, partial + 1, bound)
    ELSE [br |-> r, res |-> "atleast", partial |-> partial]
    : nb \in {next_bit(r)}, partial \in {partial0}} : TRUE

\* read_until_bound without the early return on a decided node
is_known_never(cur) == FALSE

\* read_until_bound, first match arm: a node holding Value(_) is returned as is
is_known(cur) == cur.t = "Value"

\* read_until_bound restarting the count of a partly decoded node at zero
stored_partial_restart(cur) == 0

\* read_until_bound, arm `TagTreeNode::AtLeast(v) => v`: counting resumes at
\* the stored lower bound
stored_partial(cur) == cur.v

\* read_until_bound starting a node below a decided parent at zero
parent_value_zero(p) == 0

\* a reader that starts a node one below its parent's value
parent_value_one_below(p) == IF p.v > 0 THEN p.v - 1 ELSE 0

\* read_until_bound, arm `TagTreeNode::Value(v) => v` of the parent match: a
\* node below a decided parent starts counting at the parent's value
parent_value(p) == p.v

\* read_until_bound from the loop on: count up from partial, then store
\* Value(partial) or AtLeast(partial) in the node; a truncated input returns
\* through `?` before anything is stored
CountFrom(t, r, dim_idx, bound, level, partial) ==
  CHOOSE out \in {
    IF lp.res = "err"
    THEN [tt |-> t, br |-> lp.br, res |-> "err", node |-> SeeParent]
    ELSE LET n == IF lp.res = "value" THEN Value(lp.partial) ELSE AtLeast(lp.partial)
         IN [tt |-> node_mut(t, dim_idx, level, n), br |-> lp.br,
             res |-> "ok", node |-> n]
    : lp \in {ReadLoop(r, partial, bound)}} : TRUE

\* TagTreeDecoder::read_until_bound
RECURSIVE read_until_bound(_, _, _, _, _)
read_until_bound(t, r, dim_idx, bound, level) ==
  CHOOSE out \in {
    IF is_known(cur) THEN [tt |-> t, br |-> r, res |-> "ok", node |-> cur]
    ELSE IF cur.t = "SeeParent"
    THEN IF level = 0
         THEN [tt |-> t, br |-> r, res |-> "panic", node |-> cur]
         ELSE CHOOSE below \in {
                IF p.res # "ok" THEN p
                ELSE IF p.node.t = "SeeParent" THEN [p EXCEPT !.res = "panic"]
                ELSE IF p.node.t = "AtLeast"
                     THEN IF p.node.v > bound THEN p ELSE [p EXCEPT !.res = "panic"]
                ELSE CountFrom(p.tt, p.br, dim_idx, bound, level, parent_value(p.node))
                : p \in {read_until_bound(t, r, I2(dim_idx.x \div 2, dim_idx.y \div 2),
                                          bound, level - 1)}} : TRUE
    ELSE CountFrom(t, r, dim_idx, bound, level, stored_partial(cur))
    : cur \in {node(t, dim_idx, level)}} : TRUE

\* TagTreeDecoder::read
read(t, r, dim_idx) ==
  CHOOSE out \in {
    IF o.res # "ok" THEN [tt |-> o.tt, br |-> o.br, res |-> o.res, value |-> 0]
    ELSE IF o.node.t = "Value"
         THEN [tt |-> o.tt, br |-> o.br, res |-> "ok", value |-> o.node.v]
         ELSE [tt |-> o.tt, br |-> o.br, res |-> "panic", value |-> 0]
    : o \in {read_until_bound(t, r, dim_idx, U32_MAX, t.max_depth)}} : TRUE

\* TagTreeDecoder::query_recursize
RECURSIVE query_recursize(_, _, _)
query_recursize(t, dim_idx, level) ==
  CHOOSE out \in {
    IF value.t = "SeeParent"
    THEN IF level = 0 THEN [res |-> "panic", node |-> value]
         ELSE CHOOSE up \in {
                IF parent.res = "panic" \/ parent.node.t = "SeeParent"
                THEN [res |-> "panic", node |-> parent.node]
                ELSE [res |-> "ok", node |-> AtLeast(parent.node.v)]
                : parent \in {query_recursize(t, I2(dim_idx.x \div 2, dim_idx.y \div 2),
                                              level - 1)}} : TRUE
    ELSE [res |-> "ok", node |-> value]
    : value \in {node(t, dim_idx, level)}} : TRUE

\* TagTreeDecoder::query_i2
query_i2(t, dim_idx) == query_recursize(t, dim_idx, t.max_depth)

\* InclusionTagTree::query_inclusion
query_inclusion(t, dim_idx, bound) ==
  CHOOSE out \in {
    IF q.res = "panic" \/ q.node.t = "SeeParent" THEN [res |-> "panic", included |-> FALSE]
    ELSE IF q.node.t = "AtLeast" THEN [res |-> "ok", included |-> FALSE]
    ELSE [res |-> "ok", included |-> q.node.v < bound]
    : q \in {query_i2(t, dim_idx)}} : TRUE

\* read_for_inclusion answering with the strict comparison of query_inclusion
read_for_inclusion_strict(t, r, dim_idx, bound) ==
  CHOOSE out \in {
    IF o.res # "ok" THEN [tt |-> o.tt, br |-> o.br, res |-> o.res, included |-> FALSE]
    ELSE [tt |-> o.tt, br |-> o.br, res |-> "ok",
          included |-> o.node.t = "Value" /\ o.node.v < bound]
    : o \in {read_until_bound(t, r, dim_idx, bound, t.max_depth)}} : TRUE

\* InclusionTagTree::read_for_inclusion
read_for_inclusion(t, r, dim_idx, bound) ==
  CHOOSE out \in {
    IF o.res # "ok" THEN [tt |-> o.tt, br |-> o.br, res |-> o.res, included |-> FALSE]
    ELSE IF o.node.t = "SeeParent"
         THEN [tt |-> o.tt, br |-> o.br, res |-> "panic", included |-> FALSE]
    ELSE IF o.node.t = "AtLeast"
         THEN [tt |-> o.tt, br |-> o.br,
               res |-> IF o.node.v > bound THEN "ok" ELSE "panic", included |-> FALSE]
    ELSE [tt |-> o.tt, br |-> o.br,
          res |-> IF o.node.v <= bound THEN "ok" ELSE "panic",
          included |-> o.node.v <= bound]
    : o \in {read_until_bound(t, r, dim_idx, bound, t.max_depth)}} : TRUE

\* ZeroPlaneTagTree::read
zero_plane_read(t, r, dim_idx) == read(t, r, dim_idx)

(***************************************************************************)
(* Inputs of the tag-tree model.                                           *)
(***************************************************************************)
\* the leaves of a width x height tree, in raster order
LeafAt(width, k) == I2(k % width, k \div width)
Leaves(t) ==
  LET w == t.levels[t.max_depth + 1].width
  IN {LeafAt(w, k) : k \in 0..(t.item_count - 1)}
LeafWidth(t) == t.levels[t.max_depth + 1].width

\* the tag-tree coding of an array (T.800 B.10.2), as the decoder's module
\* comment describes it: every node holds the minimum of the nodes below it,
\* and a node is coded as (value - parent value) zeros followed by a one,
\* stopping at the threshold.
RECURSIVE Depth(_, _)
Depth(width, height) ==
  IF width <= 1 /\ height <= 1 THEN 0
  ELSE 1 + Depth((width + 1) \div 2, (height + 1) \div 2)

MinOfSet(S) == CHOOSE m \in S : \A e \in S : m <= e

NodeVal(a, width, height, level, x, y) ==
  LET sh == Pow2(Depth(width, height) - level)
  IN MinOfSet({a[ly * width + lx + 1] :
                 lx \in {c \in 0..(width - 1) : c \div sh = x},
                 ly \in {c \in 0..(height - 1) : c \div sh = y}})

Zeros(n) == [i \in 1..n |-> 0]

\* code the nodes on the path to leaf, from `level` down, up to threshold thr;
\* acc.st maps a node <<level, x, y>> to [lb, done], acc.bits is the coding
RECURSIVE EncPath(_, _, _, _, _, _, _)
EncPath(acc0, a, width, height, leaf, level, thr) ==
  CHOOSE out \in {
    IF level > md THEN acc
    ELSE
      LET sh == Pow2(md - level)
          x == leaf.x \div sh
          y == leaf.y \div sh
          key == <<level, x, y>>
          val == NodeVal(a, width, height, level, x, y)
          up == IF level = 0 THEN 0
                ELSE NodeVal(a, width, height, level - 1, x \div 2, y \div 2)
          lb == Max(acc.st[key].lb, up)
          nz == Max(Min(val, thr + 1) - lb, 0)
      IN IF acc.st[key].done
         THEN EncPath(acc, a, width, height, leaf, level + 1, thr)
         ELSE IF lb + nz <= thr
              THEN EncPath([st |-> [acc.st EXCEPT ![key] = [lb |-> lb + nz, done |-> TRUE]],
                            bits |-> acc.bits \o Zeros(nz) \o <<1>>],
                           a, width, height, leaf, level + 1, thr)
              ELSE [st |-> [acc.st EXCEPT ![key] = [lb |-> lb + nz, done |-> FALSE]],
                    bits |-> acc.bits \o Zeros(nz)]
    : acc \in {acc0}, md \in {Depth(width, height)}} : TRUE

EncNodes(width, height) ==
  {<<l, x, y>> : l \in 0..Depth(width, height), x \in 0..(width - 1), y \in 0..(height - 1)}

EncInit(width, height) ==
  [st |-> [n \in EncNodes(width, height) |-> [lb |-> 0, done |-> FALSE]], bits |-> << >>]

\* the leaves in raster order, each coded up to threshold thr, for thresholds
\* thr..thrMax in turn (a leaf already known to be below the layer is skipped)
RECURSIVE EncScan(_, _, _, _, _, _, _)
EncScan(acc0, a, width, height, k, thr, thrMax) ==
  CHOOSE out \in {
    IF thr > thrMax THEN acc.bits
    ELSE IF k >= width * height
         THEN EncScan(acc, a, width, height, 0, thr + 1, thrMax)
    ELSE LET leaf == LeafAt(width, k)
             lk == <<Depth(width, height), leaf.x, leaf.y>>
         IN IF acc.st[lk].done /\ a[k + 1] < thr
            THEN EncScan(acc, a, width, height, k + 1, thr, thrMax)
            ELSE EncScan(EncPath(acc, a, width, height, leaf, 0, thr),
                         a, width, height, k + 1, thr, thrMax)
    : acc \in {acc0}} : TRUE

\* bits, most significant first, packed into bytes and padded with zeros
PackBytes(bits0) ==
  CHOOSE out \in {
    LET n == Max(DivCeil(Len(bits), 8), 1)
        bitAt(i) == IF i <= Len(bits) THEN bits[i] ELSE 0
        byteAt(j) == bitAt(8*j - 7) * 128 + bitAt(8*j - 6) * 64 + bitAt(8*j - 5) * 32
                     + bitAt(8*j - 4) * 16 + bitAt(8*j - 3) * 8 + bitAt(8*j - 2) * 4
                     + bitAt(8*j - 1) * 2 + bitAt(8*j)
    IN [j \in 1..n |-> byteAt(j)]
    : bits \in {bits0}} : TRUE

\* the coding a ZeroPlaneTagTree scan reads: every leaf coded in full
EncodeFull(a, width, height) ==
  EncScan(EncInit(width, height), a, width, height, 0, MaxVal, MaxVal)

\* the coding an InclusionTagTree reads over layers 0..MaxBound
EncodeLayers(a, width, height) ==
  EncScan(EncInit(width, height), a, width, height, 0, 0, MaxBound)


\* tree shapes <<width, height>>: one, two and three levels below the root
Shapes == {<<1, 1>>, <<2, 2>>, <<3, 2>>}

\* raw byte streams: those of the unit tests of tag_tree.rs, and an all-zero byte
RawStreams == {<<32>>, <<117>>, <<241, 48>>, <<29, 140>>, <<0>>}

Arrays(width, height) == [1..(width * height) -> 0..MaxVal]

\* the shapes read in any order: a lone root, one level and two levels below it
FreeShapes == {<<1, 1>>, <<2, 2>>, <<3, 1>>}

FreeConfigs ==
  {[w |-> sh[1], h |-> sh[2], kind |-> k, data |-> d, array |-> << >>, driver |-> "free"] :
     sh \in FreeShapes, k \in {"incl", "zero"}, d \in RawStreams}

BitsConfigs ==
  {[w |-> 1, h |-> 1, kind |-> "none", data |-> d, array |-> << >>, driver |-> "bits",
    build |-> b] : d \in RawStreams, b \in Builds}

ScanRawConfigs ==
  {[w |-> sh[1], h |-> sh[2], kind |-> k, data |-> d, array |-> << >>, driver |-> "scan"] :
     sh \in Shapes, k \in {"incl", "zero"}, d \in RawStreams}

ScanCodedConfigs ==
  UNION {
    {[w |-> sh[1], h |-> sh[2], kind |-> "zero",
      data |-> PackBytes(EncodeFull(a, sh[1], sh[2])), array |-> a, driver |-> "scan"],
     [w |-> sh[1], h |-> sh[2], kind |-> "incl",
      data |-> PackBytes(EncodeLayers(a, sh[1], sh[2])), array |-> a, driver |-> "scan"]} :
    <<sh, a>> \in UNION {{<<s, b>> : b \in Arrays(s[1], s[2])} : s \in Shapes}}

NoCall == [op |-> "new", leaf |-> I2(0, 0), bound |-> 0, res |-> "ok",
           included |-> FALSE, value |-> 0, bits |-> 0, before |-> SeeParent]

\* the record of a call: the bits_read it added and the leaf's node before it
Call(op, leaf, bound, res, included, value, r2) ==
  [op |-> op, leaf |-> leaf, bound |-> bound, res |-> res, included |-> included,
   value |-> value, bits |-> bits_read(r2) - bits_read(br),
   before |-> node(tt, leaf, tt.max_depth)]

(***************************************************************************)
(* code_block.rs                                                           *)
(***************************************************************************)
\* u8::MAX, the bit-plane mark of a coefficient that was never coded
U8_MAX == 255
\* the pass count decode works with (`let no_passes = 7; // TODO`)
no_passes == 7
\* the contexts crate::coder exports for the cleanup pass, with the values the
\* mock decoder of test_cb_decode_j10b_mocked expects
RUN_LEN == 17
UNIFORM == 18

\* enum Coeff
Insignificant(bs) ==
  [t |-> "Insignificant", bs |-> bs, value |-> 0, is_negative |-> FALSE]
Significant(value, is_negative) ==
  [t |-> "Significant", bs |-> 0, value |-> value, is_negative |-> is_negative]

CoeffIndex(y, x) == [y |-> y, x |-> x]

\* i16 arithmetic: wrap-around, arithmetic shift right, one bit of a value
WrapI16(n) == ((n + 32768) % 65536) - 32768
Shr(value, s) == value \div Pow2(s)
BitOf(value, s) == Shr(value, s) % 2

\* the result of a computation that may panic (todo!(), panic!(), or an
\* arithmetic overflow, where a debug build panics and a release build wraps)
Computed(v) == [ok |-> TRUE, v |-> v]
Panicked == [ok |-> FALSE, v |-> 0]

\* CodeBlockDecoder::new (mb >= 1)
CodeBlockDecoderNew(width, height, subband, passes, mb) ==
  [width |-> width, height |-> height, subband |-> subband, no_passes |-> passes,
   bit_plane_shift |-> mb - 1,
   coefficients |-> [i \in 1..(width * height) |-> Insignificant(U8_MAX)]]

\* CodeBlockDecoder::coeff_at
coeff_at(c, idx) ==
  IF idx.x < 0 \/ idx.x >= c.width \/ idx.y < 0 \/ idx.y >= c.height
  THEN Insignificant(U8_MAX)
  ELSE c.coefficients[c.width * idx.y + idx.x + 1]

\* *self.coeff_at_mut(idx) = v
coeff_at_mut(c, idx, v) ==
  [c EXCEPT !.coefficients[c.width * idx.y + idx.x + 1] = v]

\* CodeBlockDecoder::is_significant
is_significant(c, idx) ==
  IF idx.x < 0 \/ idx.x >= c.width \/ idx.y < 0 \/ idx.y >= c.height
  THEN FALSE
  ELSE coeff_at(c, idx).t = "Significant"

AsInt(b) == IF b THEN 1 ELSE 0

\* the LL/LH match with the roles of the horizontal and vertical counts exchanged
significance_table_exchanged(h, v, d) ==
  IF h = 0 /\ v = 0 /\ d = 0 THEN 0
  ELSE IF h = 0 /\ v = 0 /\ d = 1 THEN 1
  ELSE IF h = 0 /\ v = 0 THEN 2
  ELSE IF v = 0 /\ h = 1 THEN 3
  ELSE IF v = 0 /\ h = 2 THEN 4
  ELSE IF v = 1 /\ h = 0 /\ d = 0 THEN 5
  ELSE IF v = 1 /\ h = 0 THEN 6
  ELSE IF v = 1 THEN 7
  ELSE IF v = 2 THEN 8
  ELSE -1

\* the match on (h, v, d) for the LL and LH subbands, arm by arm
significance_table_ll_lh(h, v, d) ==
  IF h = 0 /\ v = 0 /\ d = 0 THEN 0
  ELSE IF h = 0 /\ v = 0 /\ d = 1 THEN 1
  ELSE IF h = 0 /\ v = 0 THEN 2
  ELSE IF h = 0 /\ v = 1 THEN 3
  ELSE IF h = 0 /\ v = 2 THEN 4
  ELSE IF h = 1 /\ v = 0 /\ d = 0 THEN 5
  ELSE IF h = 1 /\ v = 0 THEN 6
  ELSE IF h = 1 THEN 7
  ELSE IF h = 2 THEN 8
  ELSE -1

\* the match on (h, v, d) for the HL subband, arm by arm
significance_table_hl(h, v, d) ==
  IF h = 0 /\ v = 0 /\ d = 0 THEN 0
  ELSE IF h = 0 /\ v = 0 /\ d = 1 THEN 1
  ELSE IF h = 0 /\ v = 0 THEN 2
  ELSE IF h = 1 /\ v = 0 THEN 3
  ELSE IF h = 2 /\ v = 0 THEN 4
  ELSE IF h = 0 /\ v = 1 /\ d = 0 THEN 5
  ELSE IF h = 0 /\ v = 1 THEN 6
  ELSE IF v = 1 THEN 7
  ELSE IF v = 2 THEN 8
  ELSE -1

\* the significant neighbours of idx: horizontal, vertical, diagonal
NeighbourCounts(c, idx) ==
  LET x == idx.x
      y == idx.y
      sig(yy, xx) == is_significant(c, CoeffIndex(yy, xx))
  IN [h |-> AsInt(x > 0 /\ sig(y, x - 1)) + AsInt(x < c.width - 1 /\ sig(y, x + 1)),
      v |-> AsInt(y > 0 /\ sig(y - 1, x)) + AsInt(y < c.height - 1 /\ sig(y + 1, x)),
      d |-> AsInt(x > 0 /\ y > 0 /\ sig(y - 1, x - 1))
            + AsInt(x < c.width - 1 /\ y > 0 /\ sig(y - 1, x + 1))
            + AsInt(x > 0 /\ y < c.height - 1 /\ sig(y + 1, x - 1))
            + AsInt(x < c.width - 1 /\ y < c.height - 1 /\ sig(y + 1, x + 1))]

\* CodeBlockDecoder::significance_context; HH is todo!()
significance_context(c, idx) ==
  CHOOSE out \in {
    IF cx < 0 THEN Panicked ELSE Computed(cx)
    : cx \in {CHOOSE t \in {
                 IF c.subband \in {"LL", "LH"} THEN significance_table_ll_lh(n.h, n.v, n.d)
                 ELSE IF c.subband = "HL" THEN significance_table_hl(n.h, n.v, n.d)
                 ELSE -1
                 : n \in {NeighbourCounts(c, idx)}} : TRUE}} : TRUE

\* CodeBlockDecoder::is_bit_plane_set (of a significant coefficient)
is_bit_plane_set(c, build, idx) ==
  IF c.bit_plane_shift >= 16 /\ build = "debug" THEN Panicked
  ELSE Computed(BitOf(coeff_at(c, idx).value, c.bit_plane_shift % 16) = 1)

\* the value make_significant gives a coefficient: 1 << bit_plane_shift, an i16
first_magnitude(shift) == WrapI16(Pow2(shift % 16))

\* CodeBlockDecoder::make_significant
make_significant(c, build, idx) ==
  IF coeff_at(c, idx).t = "Significant"
  THEN [res |-> "doubly significant", cb |-> c]
  ELSE IF c.bit_plane_shift >= 16 /\ build = "debug"
  THEN [res |-> "shift left with overflow", cb |-> c]
  ELSE [res |-> "ok",
        cb |-> coeff_at_mut(c, idx, Significant(first_magnitude(c.bit_plane_shift), FALSE))]

\* sign_context: the sign contribution of one neighbour, and of a pair
sp(co) == IF co.t = "Insignificant" THEN 0 ELSE 1 - 2 * AsInt(co.is_negative)
sign_pair(a, b) ==
  LET t == sp(a) + sp(b) IN IF t > 0 THEN 1 ELSE IF t < 0 THEN -1 ELSE 0

\* CodeBlockDecoder::sign_context
sign_context(c, idx) ==
  LET vc == sign_pair(coeff_at(c, CoeffIndex(idx.y - 1, idx.x)),
                      coeff_at(c, CoeffIndex(idx.y + 1, idx.x)))
      hc == sign_pair(coeff_at(c, CoeffIndex(idx.y, idx.x - 1)),
                      coeff_at(c, CoeffIndex(idx.y, idx.x + 1)))
  IN IF hc = 1 /\ vc = 1 THEN [cx |-> 13, xor |-> 0]
     ELSE IF hc = 1 /\ vc = 0 THEN [cx |-> 12, xor |-> 0]
     ELSE IF hc = 1 /\ vc = -1 THEN [cx |-> 11, xor |-> 0]
     ELSE IF hc = 0 /\ vc = 1 THEN [cx |-> 10, xor |-> 0]
     ELSE IF hc = 0 /\ vc = 0 THEN [cx |-> 9, xor |-> 0]
     ELSE IF hc = 0 /\ vc = -1 THEN [cx |-> 10, xor |-> 1]
     ELSE IF hc = -1 /\ vc = 1 THEN [cx |-> 11, xor |-> 1]
     ELSE IF hc = -1 /\ vc = 0 THEN [cx |-> 12, xor |-> 1]
     ELSE [cx |-> 13, xor |-> 1]

\* CodeBlockDecoder::magnitude_context (of a significant coefficient)
magnitude_context(c, build, idx) ==
  IF c.bit_plane_shift = U8_MAX /\ build = "debug" THEN Panicked
  ELSE IF (1 + c.bit_plane_shift) % 256 >= 16 /\ build = "debug" THEN Panicked
  ELSE IF Shr(coeff_at(c, idx).value, ((1 + c.bit_plane_shift) % 256) % 16) # 1
       THEN Computed(16)
  ELSE IF \E dy \in {-1, 0, 1}, dx \in {-1, 0, 1} :
            (dy # 0 \/ dx # 0) /\ is_significant(c, CoeffIndex(idx.y + dy, idx.x + dx))
       THEN Computed(15)
  ELSE Computed(14)

\* a | b of two numbers that are not negative
RECURSIVE BitOr(_, _)
BitOr(a, b) ==
  IF a = 0 THEN b
  ELSE IF b = 0 THEN a
  ELSE 2 * BitOr(a \div 2, b \div 2) + (IF a % 2 = 1 \/ b % 2 = 1 THEN 1 ELSE 0)

\* magnitude_decode's new value: value | (b << bit_plane_shift) as i16, b a u8;
\* the shift is made in u8 and drops the bits it moves past bit 7, so that
\* only the low byte of value changes
magnitude_or(value, b, shift, build) ==
  IF shift >= 8 /\ build = "debug" THEN Panicked
  ELSE Computed(value - (value % 256)
                + BitOr(value % 256, (b * Pow2(shift % 8)) % 256))

\* CodeBlockDecoder::coefficients: -1 * value is an i16 product, widened after
coefficients(c, build) ==
  IF build = "debug" /\ \E i \in 1..Len(c.coefficients) :
                          /\ c.coefficients[i].t = "Significant"
                          /\ c.coefficients[i].is_negative
                          /\ c.coefficients[i].value = -32768
  THEN Panicked
  ELSE Computed([i \in 1..Len(c.coefficients) |->
                   IF c.coefficients[i].t = "Insignificant" THEN 0
                   ELSE IF c.coefficients[i].is_negative
                        THEN WrapI16(-c.coefficients[i].value)
                        ELSE c.coefficients[i].value])

(***************************************************************************)
(* decode, as a coroutine of the MQ decoder: the code runs from one        *)
(* coder.decode_bit call to the next.  A run is [cb, pc]: the decoder and  *)
(* the place decode has reached,                                           *)
(*   pc.phase        "new" (constructed), "ready" (zero bit-planes set),   *)
(*                   "wait" (inside decode_bit), "done" (decode returned   *)
(*                   Ok), "panic"                                          *)
(*   pc.pass_number, pc.state    the loop variables of decode              *)
(*   pc.by, pc.x, pc.y           the loop variables of the pass            *)
(*   pc.site, pc.cx              the decode_bit call and its context       *)
(*   pc.a                        the first UNIFORM decision                *)
(***************************************************************************)
Panic(c, p, why) ==
  [cb |-> c, pc |-> [p EXCEPT !.phase = "panic", !.why = why, !.site = "none", !.cx = 0]]
Request(c, p, site, cx) ==
  [cb |-> c, pc |-> [p EXCEPT !.phase = "wait", !.site = site, !.cx = cx]]
\* the coefficient at hand needs no decision
Skip(c, p) == [cb |-> c, pc |-> [p EXCEPT !.phase = "skip"]]

\* the State that decode gives the pass after one of State state
NextState(state) ==
  IF state = "CleanUp" THEN "SignificancePropagation"
  ELSE IF state = "SignificancePropagation" THEN "MagnitudeRefinement"
  ELSE "CleanUp"

StripEnd(c, by) == Min(by + 4, c.height)

\* pass_cleanup: the insignificant coefficients of the column strip
count_insig(c, by, x) ==
  Cardinality({y \in by..(StripEnd(c, by) - 1) : ~is_significant(c, CoeffIndex(y, x))})

\* whether a cleanup pass enters the run-length branch for a column strip
d8(c, by, x) == 4 = count_insig(c, by, x)

\* significance_decode up to its decode_bit: a coefficient the significance
\* pass coded as 0 in this bit-plane is not coded again
significance_decode(c, p, idx) ==
  IF coeff_at(c, idx).bs = c.bit_plane_shift THEN Skip(c, p)
  ELSE CHOOSE out \in {
         IF ~sc.ok THEN Panic(c, p, "significance context") ELSE Request(c, p, "significance", sc.v)
         : sc \in {significance_context(c, idx)}} : TRUE

\* pass_cleanup, the loop over the remaining coefficients, at one coefficient
pass_cleanup_at(c, p, idx) ==
  IF is_significant(c, idx) THEN Skip(c, p) ELSE significance_decode(c, p, idx)

\* the test of pass_significance on a coefficient's significance context
d2(sig_ctx) == 0 = sig_ctx

\* a significance pass that takes no coefficient for significant already
d1_never(c, idx) == FALSE

\* the test of pass_significance on a coefficient that is significant already
d1(c, idx) == is_significant(c, idx)

\* pass_significance at one coefficient
pass_significance_at(c, p, idx) ==
  IF d1(c, idx) THEN Skip(c, p)
  ELSE CHOOSE out \in {
         IF ~sc.ok THEN Panic(c, p, "significance context")
         ELSE IF d2(sc.v) THEN Skip(c, p)
         ELSE Request(c, p, "significance", sc.v)
         : sc \in {significance_context(c, idx)}} : TRUE

\* pass_refinement at one coefficient
pass_refinement_at(c, p, idx) ==
  IF ~is_significant(c, idx) THEN Skip(c, p)
  ELSE CHOOSE out \in {
         IF ~set.ok THEN Panic(c, p, "shift right with overflow")
         ELSE IF set.v THEN Skip(c, p)
         ELSE CHOOSE out2 \in {
                IF ~mc.ok THEN Panic(c, p, "magnitude context") ELSE Request(c, p, "magnitude", mc.v)
                : mc \in {magnitude_context(c, p.build, idx)}} : TRUE
         : set \in {is_bit_plane_set(c, p.build, idx)}} : TRUE

RECURSIVE decode_from(_, _)
RECURSIVE pass_cleanup(_, _)
RECURSIVE pass_scan(_, _)

\* decode at the top of its pass loop
decode_from(c0, p0) ==
  CHOOSE out \in {
    IF p.pass_number >= no_passes
    THEN [cb |-> c, pc |-> [p EXCEPT !.phase = "done", !.site = "none", !.cx = 0]]
    ELSE IF p.state = "CleanUp"
    THEN pass_cleanup(c, [p EXCEPT !.by = 0, !.x = 0, !.y = 0])
    ELSE IF p.state = "SignificancePropagation"
    THEN IF c.bit_plane_shift = 0 /\ p.build = "debug"
         THEN Panic(c, p, "subtract with overflow")
         ELSE pass_scan([c EXCEPT !.bit_plane_shift = (c.bit_plane_shift - 1) % 256],
                        [p EXCEPT !.by = 0, !.x = 0, !.y = 0])
    ELSE pass_scan(c, [p EXCEPT !.by = 0, !.x = 0, !.y = 0])
    : c \in {c0}, p \in {p0}} : TRUE

\* pass_cleanup at the top of a column strip (by, x)
pass_cleanup(c0, p0) ==
  CHOOSE out \in {
    IF p.by >= c.height
    THEN decode_from(c, [p EXCEPT !.pass_number = p.pass_number + 1,
                                  !.state = NextState(p.state)])
    ELSE IF p.x >= c.width
    THEN pass_cleanup(c, [p EXCEPT !.by = p.by + 4, !.x = 0])
    ELSE IF d8(c, p.by, p.x)
    THEN Request(c, [p EXCEPT !.y = p.by], "run_len", RUN_LEN)
    ELSE pass_scan(c, [p EXCEPT !.y = p.by])
    : c \in {c0}, p \in {p0}} : TRUE

\* the innermost loop of a pass at (by, x, y)
pass_scan(c0, p0) ==
  CHOOSE out \in {
    IF p.state # "CleanUp" /\ p.by >= c.height
    THEN decode_from(c, [p EXCEPT !.pass_number = p.pass_number + 1,
                                  !.state = NextState(p.state)])
    ELSE IF p.state # "CleanUp" /\ p.x >= c.width
    THEN pass_scan(c, [p EXCEPT !.by = p.by + 4, !.x = 0, !.y = p.by + 4])
    ELSE IF p.y >= StripEnd(c, p.by)
    THEN IF p.state = "CleanUp"
         THEN pass_cleanup(c, [p EXCEPT !.x = p.x + 1])
         ELSE pass_scan(c, [p EXCEPT !.x = p.x + 1, !.y = p.by])
    ELSE CHOOSE out2 \in {
           IF r.pc.phase = "skip" THEN pass_scan(c, [p EXCEPT !.y = p.y + 1]) ELSE r
           : r \in {IF p.state = "CleanUp" THEN pass_cleanup_at(c, p, CoeffIndex(p.y, p.x))
                    ELSE IF p.state = "SignificancePropagation"
                    THEN pass_significance_at(c, p, CoeffIndex(p.y, p.x))
                    ELSE pass_refinement_at(c, p, CoeffIndex(p.y, p.x))}} : TRUE
    : c \in {c0}, p \in {p0}} : TRUE

\* decode_sign_bit up to its decode_bit
decode_sign_bit(c, p, idx) ==
  Request(c, [p EXCEPT !.y = idx.y, !.x = idx.x], "sign", sign_context(c, idx).cx)

\* a decoder that leaves the sign of a newly significant coefficient undecoded
newly_sig_never(became) == FALSE

\* whether a coefficient that has just become significant gets its sign decoded
newly_sig(became) == became

\* make_significant, then the sign when the coefficient became significant
significant_then_sign(c, p, idx) ==
  CHOOSE out \in {
    IF ms.res # "ok" THEN Panic(c, p, ms.res)
    ELSE IF newly_sig(TRUE) THEN decode_sign_bit(ms.cb, p, idx)
    ELSE pass_scan(ms.cb, [p EXCEPT !.y = idx.y + 1])
    : ms \in {make_significant(c, p.build, idx)}} : TRUE

\* decode from the return of decode_bit with decision d to the next decode_bit
after_decode_bit(c, p, d) ==
  LET idx == CoeffIndex(p.y, p.x) IN
  IF p.site = "run_len"
  THEN IF d = 1 THEN pass_cleanup(c, [p EXCEPT !.x = p.x + 1])
       ELSE Request(c, p, "uniform_a", UNIFORM)
  ELSE IF p.site = "uniform_a"
  THEN Request(c, [p EXCEPT !.a = d], "uniform_b", UNIFORM)
  ELSE IF p.site = "uniform_b"
  THEN IF 2 * p.a > U8_MAX /\ p.build = "debug"
       THEN Panic(c, p, "multiply with overflow")
       ELSE IF ((2 * p.a) % 256) + d > U8_MAX /\ p.build = "debug"
       THEN Panic(c, p, "add with overflow")
       ELSE IF ~((2 * p.a + d) % 256 < 4) THEN Panic(c, p, "improper decode from mq coder")
       ELSE significant_then_sign(c, p, CoeffIndex(p.by + ((2 * p.a + d) % 256), p.x))
  ELSE IF p.site = "significance"
  THEN IF d = 1 THEN significant_then_sign(c, p, idx)
       ELSE IF p.state = "SignificancePropagation"
       THEN pass_scan(coeff_at_mut(c, idx, Insignificant(c.bit_plane_shift)),
                      [p EXCEPT !.y = p.y + 1])
       ELSE pass_scan(c, [p EXCEPT !.y = p.y + 1])
  ELSE IF p.site = "sign"
  THEN pass_scan(coeff_at_mut(c, idx,
                   Significant(coeff_at(c, idx).value, d # sign_context(c, idx).xor)),
                 [p EXCEPT !.y = p.y + 1])
  ELSE CHOOSE out \in {
         IF ~m.ok THEN Panic(c, p, "shift left with overflow")
         ELSE pass_scan(coeff_at_mut(c, idx, Significant(m.v, coeff_at(c, idx).is_negative)),
                        [p EXCEPT !.y = p.y + 1])
         : m \in {magnitude_or(coeff_at(c, idx).value, d, c.bit_plane_shift, p.build)}} : TRUE

\* CodeBlockDecoder::num_zero_bit_plane
num_zero_bit_plane(c, build, arg) ==
  IF arg > c.bit_plane_shift /\ build = "debug" THEN Panicked
  ELSE Computed([c EXCEPT !.bit_plane_shift = (c.bit_plane_shift - arg) % 256])

\* MockCoder::decode_bit
mock_decode_bit(co, cx) ==
  IF co.index >= Len(co.exp) THEN [coder |-> co, res |-> "index out of bounds", out |-> 0]
  ELSE [coder |-> [co EXCEPT !.index = co.index + 1],
        res |-> IF co.exp[co.index + 1][1] = cx THEN "ok" ELSE "incorrect cx during decode",
        out |-> co.exp[co.index + 1][2]]

(***************************************************************************)
(* The tag-tree state machine.                                             *)
(***************************************************************************)
\* the state after InclusionTagTree::new / ZeroPlaneTagTree::new and BitReader::new
InitTT ==
  \E c \in FreeConfigs \cup BitsConfigs \cup ScanRawConfigs \cup ScanCodedConfigs :
    /\ ttKind = c.kind
    /\ tt = TagTreeDecoderNew(c.w, c.h)
    /\ br = BitReaderNew(c.data)
    /\ ttDriver = c.driver
    /\ ttArray = c.array
    /\ ttLog = << >>
    /\ ttLast = NoCall
    /\ cb = CodeBlockDecoderNew(1, 4, "LH", 7, 10)
    /\ coder = [kind |-> "free", exp |-> << >>, index |-> 0]
    /\ cbPc = [phase |-> "new", build |-> IF c.driver = "bits" THEN c.build ELSE "debug",
               zbp |-> 7, pass_number |-> 0,
               state |-> "CleanUp", by |-> 0, x |-> 0, y |-> 0,
               site |-> "none", cx |-> 0, a |-> 0, why |-> ""]
    /\ cbLast = [site |-> "none", cx |-> 0, d |-> 0, became |-> {}]
    /\ dwt = NoTransform
    /\ jp2 = NoFile

\* the bits handed out so far, and the next_bit calls that failed
Delivered(r) == 8 * (r.pos - 1) + r.offset
Overrun(r) == bits_read(r) - Delivered(r)

Alive == ttLast.res # "panic" /\ Overrun(br) < MaxOverrun

\* a call of InclusionTagTree::read_for_inclusion
ReadForInclusion(leaf, bound) ==
  /\ ttDriver = "free" /\ ttKind = "incl" /\ Alive
  /\ LET o == read_for_inclusion(tt, br, leaf, bound) IN
     /\ tt' = o.tt
     /\ br' = o.br
     /\ ttLast' = Call("read_for_inclusion", leaf, bound, o.res, o.included, 0, o.br)
  /\ UNCHANGED <<ttKind, ttDriver, ttLog, ttArray>>
  /\ UNCHANGED <<cbVars, dwt, jp2>>

\* a call of ZeroPlaneTagTree::read
ZeroPlaneRead(leaf) ==
  /\ ttDriver = "free" /\ ttKind = "zero" /\ Alive
  /\ LET o == zero_plane_read(tt, br, leaf) IN
     /\ tt' = o.tt
     /\ br' = o.br
     /\ ttLast' = Call("read", leaf, U32_MAX, o.res, FALSE, o.value, o.br)
  /\ UNCHANGED <<ttKind, ttDriver, ttLog, ttArray>>
  /\ UNCHANGED <<cbVars, dwt, jp2>>

\* a call of BitReader::next_bit on the reader alone
NextBit ==
  /\ ttDriver = "bits" /\ Alive
  /\ LET nb == next_bit(br) IN
     /\ br' = nb.br
     /\ ttLast' = Call("next_bit", I2(0, 0), 0, nb.res, FALSE, nb.bit, nb.br)
  /\ UNCHANGED <<ttKind, tt, ttDriver, ttLog, ttArray>>
  /\ UNCHANGED <<cbVars, dwt, jp2>>

\* a call of BitReader::take on the reader alone
Take(arg) ==
  /\ ttDriver = "bits" /\ Alive
  /\ \E o \in {take(br, arg, cbPc.build)} :
       /\ br' = o.br
       /\ ttLast' = Call("take", I2(0, 0), arg, o.res, FALSE, o.out, o.br)
  /\ UNCHANGED <<ttKind, tt, ttDriver, ttLog, ttArray>>
  /\ UNCHANGED <<cbVars, dwt, jp2>>

\* one visit of a packet's walk over an inclusion tree (test_packet_cb_inclusion):
\* the leaves in raster order for layer 0, then for layer 1, ...; each visit
\* asks query_inclusion and, when the leaf is not already known to be
\* included, read_for_inclusion
PacketVisit ==
  /\ ttDriver = "scan" /\ ttKind = "incl" /\ ttLast.res = "ok"
  /\ Len(ttLog) < tt.item_count * (MaxBound + 1)
  /\ LET k == Len(ttLog) % tt.item_count
         layer == Len(ttLog) \div tt.item_count
         leaf == LeafAt(LeafWidth(tt), k)
         q == query_inclusion(tt, leaf, layer)
         o == read_for_inclusion(tt, br, leaf, layer)
     IN IF q.res = "ok" /\ q.included
        THEN /\ ttLast' = Call("query_inclusion", leaf, layer, "ok", TRUE, 0, br)
             /\ ttLog' = Append(ttLog, [leaf |-> leaf, bound |-> layer, bits |-> 0,
                                        outcome |-> "known", value |-> 0])
             /\ UNCHANGED <<tt, br>>
        ELSE /\ tt' = o.tt
             /\ br' = o.br
             /\ ttLast' = Call("read_for_inclusion", leaf, layer,
                                IF q.res = "panic" THEN "panic" ELSE o.res,
                                o.included, 0, o.br)
             /\ ttLog' = Append(ttLog,
                   [leaf |-> leaf, bound |-> layer,
                    bits |-> bits_read(o.br) - bits_read(br),
                    outcome |-> IF q.res = "panic" \/ o.res = "panic" THEN "panic"
                                ELSE IF o.res = "err" THEN "err"
                                ELSE IF o.included THEN "included" ELSE "not_yet",
                    value |-> 0])
  /\ UNCHANGED <<ttKind, ttDriver, ttArray>>
  /\ UNCHANGED <<cbVars, dwt, jp2>>

\* one read of a row-major scan of a zero-bit-plane tree (test_oner,
\* test_two_level, test_given_example)
ScanRead ==
  /\ ttDriver = "scan" /\ ttKind = "zero" /\ ttLast.res = "ok"
  /\ Len(ttLog) < tt.item_count
  /\ LET leaf == LeafAt(LeafWidth(tt), Len(ttLog))
         o == zero_plane_read(tt, br, leaf)
     IN /\ tt' = o.tt
        /\ br' = o.br
        /\ ttLast' = Call("read", leaf, U32_MAX, o.res, FALSE, o.value, o.br)
        /\ ttLog' = Append(ttLog,
              [leaf |-> leaf, bound |-> U32_MAX,
               bits |-> bits_read(o.br) - bits_read(br),
               outcome |-> IF o.res = "ok" THEN "value" ELSE o.res,
               value |-> o.value])
  /\ UNCHANGED <<ttKind, ttDriver, ttArray>>
  /\ UNCHANGED <<cbVars, dwt, jp2>>

NextTT ==
  \/ \E leaf \in Leaves(tt), bound \in 0..MaxBound : ReadForInclusion(leaf, bound)
  \/ \E leaf \in Leaves(tt) : ZeroPlaneRead(leaf)
  \/ NextBit
  \/ \E arg \in 0..MaxTake : Take(arg)
  \/ PacketVisit
  \/ ScanRead

Spec == InitTT /\ [][NextTT]_vars


(***************************************************************************)
(* Properties of the tag trees and the bit reader.                         *)
(***************************************************************************)
IsTreeRead(c) == c.op \in {"read", "read_for_inclusion"}
LeafNode == node(tt, ttLast.leaf, tt.max_depth)

\* a node's state moved forward: SeeParent -> AtLeast(v) -> AtLeast(v' >= v)
\* -> Value(w >= v), and Value(w) stays Value(w)
NodeForward(a, b) ==
  CASE a.t = "SeeParent" -> TRUE
    [] a.t = "AtLeast"   -> b.t \in {"AtLeast", "Value"} /\ b.v >= a.v
    [] a.t = "Value"     -> b = a

\* C1: over every sequence of reads (in particular those with non-decreasing
\* bounds), every node of a tag tree only moves forward along
\* SeeParent -> AtLeast(v) -> AtLeast(v' >= v) -> Value(w >= v); a stored
\* lower bound never decreases and a node holding Value(w) keeps Value(w).
C1_NodesOnlyMoveForward ==
  [][\A l \in 1..Len(tt.levels) :
       \A i \in 1..Len(tt.levels[l].nodes) :
         NodeForward(tt.levels[l].nodes[i], tt'.levels[l].nodes[i])]_vars

\* a read took a leaf from a stored lower bound to a larger terminal value
C1_Witness ==
  /\ IsTreeRead(ttLast) /\ ttLast.res = "ok"
  /\ ttLast.before.t = "AtLeast" /\ ttLast.before.v >= 1
  /\ LeafNode.t = "Value" /\ LeafNode.v > ttLast.before.v

\* C2: a read of a leaf that already holds its terminal Value(v) (a full
\* read, or read_for_inclusion with a bound >= v) adds nothing to bits_read.
C2_KnownLeafReadsNoBits ==
  (IsTreeRead(ttLast) /\ ttLast.before.t = "Value" /\ ttLast.bound >= ttLast.before.v)
    => ttLast.bits = 0 /\ ttLast.res = "ok"

\* a decided leaf was read again after bits had been consumed for it
C2_Witness ==
  /\ IsTreeRead(ttLast) /\ ttLast.res = "ok"
  /\ ttLast.before.t = "Value" /\ ttLast.bound >= ttLast.before.v
  /\ bits_read(br) > 0 /\ ttDriver = "free"

\* the bounds C3 tries: on a fresh tree bounds large enough for one read to
\* run through a whole byte, elsewhere the bounds the reads of the model use
ResumeBounds ==
  IF ttLast.op = "new" /\ ttDriver = "free" THEN 0..ResumeBound ELSE 0..MaxBound

\* C3: tag-tree reads resume from the stored partial state: for every leaf
\* and bounds b1 <= b2, a read with b1 followed by a read with b2 delivers the
\* same input bits and leaves every node in the same state as a single read
\* with b2 (on a fresh tree, and on every tree the program reaches).
C3_AsClaimed ==
  (ttKind = "incl" /\ ttLast.res # "panic") =>
    \A leaf \in Leaves(tt) :
      \A b1 \in ResumeBounds : \A b2 \in {b \in ResumeBounds : b >= b1} :
        LET first == read_for_inclusion(tt, br, leaf, b1)
            second == read_for_inclusion(first.tt, first.br, leaf, b2)
            single == read_for_inclusion(tt, br, leaf, b2)
        IN first.res # "panic" =>
             /\ second.tt = single.tt
             /\ Delivered(second.br) = Delivered(single.br)

\* what read_until_bound does keep: the two reads and the single read always
\* deliver the same input bits and end the same way (both answer, or both
\* fail with truncated input), and they leave every node and the whole
\* reader (bits_read included) in the same state and give the same answer
\* when the single read does not run off the end of the input; a read that
\* does stores none of the bits it consumed
C3_ReadsResume ==
  (ttKind = "incl" /\ ttLast.res # "panic") =>
    \A leaf \in Leaves(tt) :
      \A b1 \in ResumeBounds : \A b2 \in {b \in ResumeBounds : b >= b1} :
        LET first == read_for_inclusion(tt, br, leaf, b1)
            second == read_for_inclusion(first.tt, first.br, leaf, b2)
            single == read_for_inclusion(tt, br, leaf, b2)
        IN first.res # "panic" =>
             /\ Delivered(second.br) = Delivered(single.br)
             /\ second.res = single.res
             /\ single.res = "ok" =>
                  /\ first.res = "ok"
                  /\ second.tt = single.tt
                  /\ second.br = single.br
                  /\ second.included = single.included

\* a read resumed from the lower bound an earlier read had stored in the
\* leaf, and consumed further bits
C3_Witness ==
  /\ ttLast.op = "read_for_inclusion" /\ ttLast.res = "ok"
  /\ ttLast.before.t = "AtLeast" /\ ttLast.before.v >= 1
  /\ ttLast.bits >= 1 /\ ttLast.bound > ttLast.before.v


\* the visits of a scan, as the unit tests of tag_tree.rs list them
IsScanOf(kind, width, height, data) ==
  /\ ttDriver = "scan" /\ ttKind = kind
  /\ LeafWidth(tt) = width /\ tt.item_count = width * height
  /\ br.data = data

C4_Bits == <<3, 1, 1, 1, 1, 0, 0, 0, 2, 1, 1, 1>>
C4_Outcomes == <<"included", "included", "not_yet", "not_yet", "not_yet", "not_yet",
                 "known", "known", "not_yet", "not_yet", "included", "included">>

\* C4: on a 3x2 inclusion tree fed 0b11110001, 0b00110000, the visits of
\* leaves (0,0),(1,0),(2,0),(0,1),(1,1),(2,1) for layer 0 consume (3,1,1,1,1,0)
\* bits and report included, included, not-yet x 4; the visits for layer 1
\* consume (0,0,2,1,1,1) bits and report already-known, already-known,
\* not-yet, not-yet, included, included.
C4_PacketInclusionExample ==
  IsScanOf("incl", 3, 2, <<241, 48>>) =>
    \A i \in 1..Min(Len(ttLog), 12) :
      /\ ttLog[i].leaf = LeafAt(3, (i - 1) % 6)
      /\ ttLog[i].bound = (i - 1) \div 6
      /\ ttLog[i].bits = C4_Bits[i]
      /\ ttLog[i].outcome = C4_Outcomes[i]

\* both layers of the example have been walked
C4_Witness ==
  IsScanOf("incl", 3, 2, <<241, 48>>) /\ Len(ttLog) = 12 /\ bits_read(br) = 12

\* the coding of the first n leaves of a row-major full scan
RECURSIVE EncFullPrefix(_, _, _, _, _, _)
EncFullPrefix(acc0, a, width, height, k, n) ==
  CHOOSE out \in {
    IF k >= n THEN acc.bits
    ELSE EncFullPrefix(EncPath(acc, a, width, height, LeafAt(width, k), 0, MaxVal),
                       a, width, height, k + 1, n)
    : acc \in {acc0}} : TRUE

\* the bits the coding spends on leaf k (from 0): those of its ancestors not
\* decided by an earlier leaf, plus its own
EncLeafBits(a, width, height, k) ==
  Len(EncFullPrefix(EncInit(width, height), a, width, height, 0, k + 1))
    - Len(EncFullPrefix(EncInit(width, height), a, width, height, 0, k))

\* C5: a row-major full scan over the tag-tree coding of an array returns each
\* leaf's array value and consumes for each leaf exactly the bits of its
\* not-yet-decided ancestors plus its own; a 1x1 tree on 0b00100000 yields 2
\* after 3 bits, a 2x2 tree on 0b01110101 yields (1,1,2,2) with (3,1,2,2) bits.
C5_FullScanDecodesArray ==
  /\ (ttDriver = "scan" /\ ttKind = "zero" /\ ttArray # << >>) =>
       \A i \in 1..Len(ttLog) :
         /\ ttLog[i].outcome = "value"
         /\ ttLog[i].value = ttArray[i]
         /\ ttLog[i].bits = EncLeafBits(ttArray, LeafWidth(tt),
                                        tt.item_count \div LeafWidth(tt), i - 1)
  /\ IsScanOf("zero", 1, 1, <<32>>) =>
       \A i \in 1..Len(ttLog) :
         ttLog[i].outcome = "value" /\ ttLog[i].value = 2 /\ ttLog[i].bits = 3
  /\ IsScanOf("zero", 2, 2, <<117>>) =>
       \A i \in 1..Len(ttLog) :
         /\ ttLog[i].outcome = "value"
         /\ ttLog[i].value = <<1, 1, 2, 2>>[i]
         /\ ttLog[i].bits = <<3, 1, 2, 2>>[i]

\* the 2x2 example has been scanned to its last leaf
C5_Witness ==
  IsScanOf("zero", 2, 2, <<117>>) /\ Len(ttLog) = 4 /\ bits_read(br) = 8

\* C6: whenever a call (next_bit, read_for_inclusion, read) asks for a bit the
\* exhausted byte source cannot give, the call returns the truncated-input
\* error: no value, no inclusion answer, no panic.
C6_TruncatedInputIsAnError ==
  [][Overrun(br') > Overrun(br) =>
       /\ ttLast'.res = "err"
       /\ ttLast'.value = 0 /\ ~ttLast'.included
       /\ ttDriver = "scan" => ttLog'[Len(ttLog')].outcome = "err"]_vars

\* a tree read took bits and then ran off the end of the input
C6_Witness ==
  IsTreeRead(ttLast) /\ ttLast.res = "err" /\ ttLast.bits >= 2


(***************************************************************************)
(* The code-block state machine.                                           *)
(***************************************************************************)
\* the decisions of test_cb_decode_j10b_mocked and test_cb_decode_j10a_mocked,
\* each <<expected context, decision>>
J10bTrace ==
  << <<17, 0>>, <<18, 0>>, <<18, 1>>, <<9, 0>>, <<3, 0>>, <<0, 0>>, <<3, 0>>, <<3, 0>>,
     <<14, 0>>, <<0, 0>>, <<3, 1>>, <<10, 0>>, <<3, 1>>, <<10, 0>>, <<3, 0>>, <<16, 1>> >>
J10aTrace ==
  << <<17, 0>>, <<18, 1>>, <<18, 1>>, <<9, 1>>, <<3, 0>>, <<3, 1>>, <<10, 0>>, <<3, 1>>,
     <<10, 0>>, <<15, 0>>, <<0, 1>>, <<9, 1>>, <<4, 1>>, <<10, 0>>,
     <<15, 1>>, <<15, 0>>, <<15, 1>>, <<16, 0>>, <<15, 0>>,
     <<16, 0>>, <<16, 1>>, <<16, 1>>, <<16, 0>>, <<16, 0>>,
     <<16, 1>>, <<16, 1>>, <<16, 1>>, <<16, 0>>, <<16, 1>>,
     <<16, 0>>, <<16, 0>>, <<16, 0>>, <<16, 0>>, <<16, 1>> >>

CBConfig(width, height, subband, passes, mb, zbp, kind, exp) ==
  [width |-> width, height |-> height, subband |-> subband, no_passes |-> passes,
   mb |-> mb, zbp |-> zbp, kind |-> kind, exp |-> exp]

\* the two mocked tests, and small blocks decoded against any decision sequence
J10b == CBConfig(1, 4, "LH", 7, 10, 7, "mock", J10bTrace)
J10a == CBConfig(1, 5, "LL", 16, 9, 3, "mock", J10aTrace)
\* a block of two column strips against a MockCoder: the first cleanup pass
\* makes coefficient (0, 0) significant by the run-length branch, finds the
\* three below it insignificant, and goes on to the second column
TwoColumnsTrace ==
  << <<17, 0>>, <<18, 0>>, <<18, 0>>, <<9, 0>>, <<3, 0>>, <<0, 0>>, <<0, 0>>, <<17, 1>> >>
TwoColumns == CBConfig(2, 4, "LL", 7, 3, 1, "mock", TwoColumnsTrace)
CBConfigs ==
  {J10b, J10a,
   CBConfig(1, 4, "LH", 1, 3, 0, "free", << >>),
   CBConfig(2, 1, "HL", 7, 3, 1, "free", << >>),
   CBConfig(2, 2, "LL", 4, 4, 1, "free", << >>),
   CBConfig(1, 2, "HH", 7, 3, 0, "free", << >>),
   TwoColumns}

NoDecision == [site |-> "none", cx |-> 0, d |-> 0, became |-> {}]

\* the coefficients (numbered from 1) that are insignificant in c and significant in c2
Became(c, c2) ==
  {i \in 1..Len(c.coefficients) :
     c.coefficients[i].t = "Insignificant" /\ c2.coefficients[i].t = "Significant"}

\* the state after CodeBlockDecoder::new and the construction of the coder
InitCB ==
  /\ \E cfg \in CBConfigs, build \in Builds :
       /\ cb = CodeBlockDecoderNew(cfg.width, cfg.height, cfg.subband, cfg.no_passes, cfg.mb)
       /\ coder = [kind |-> cfg.kind, exp |-> cfg.exp, index |-> 0]
       /\ cbPc = [phase |-> "new", build |-> build, zbp |-> cfg.zbp, pass_number |-> 0,
                  state |-> "CleanUp", by |-> 0, x |-> 0, y |-> 0,
                  site |-> "none", cx |-> 0, a |-> 0, why |-> ""]
  /\ cbLast = NoDecision
  /\ ttKind = "zero"
  /\ tt = TagTreeDecoderNew(1, 1)
  /\ br = BitReaderNew(<<0>>)
  /\ ttDriver = "free"
  /\ ttArray = << >>
  /\ ttLog = << >>
  /\ ttLast = NoCall
  /\ dwt = NoTransform
  /\ jp2 = NoFile

\* codeblock.num_zero_bit_plane(zbp), with the count the packet header gave
NumZeroBitPlane ==
  /\ cbPc.phase = "new"
  /\ \E r \in {num_zero_bit_plane(cb, cbPc.build, cbPc.zbp)} :
       IF r.ok
       THEN cb' = r.v /\ cbPc' = [cbPc EXCEPT !.phase = "ready"]
       ELSE cb' = cb /\ cbPc' = [cbPc EXCEPT !.phase = "panic", !.why = "subtract with overflow"]
  /\ UNCHANGED <<coder, cbLast>>
  /\ UNCHANGED <<ttVars, dwt, jp2>>

\* codeblock.decode(&mut coder), up to its first decode_bit
Decode ==
  /\ cbPc.phase = "ready"
  /\ \E run \in {decode_from(cb, cbPc)} :
       cb' = run.cb /\ cbPc' = run.pc
  /\ UNCHANGED <<coder, cbLast>>
  /\ UNCHANGED <<ttVars, dwt, jp2>>

\* a decode_bit of any Decoder returns d, and decode runs on to its next decode_bit
DecodeBit(d) ==
  /\ cbPc.phase = "wait" /\ coder.kind = "free"
  /\ \E run \in {after_decode_bit(cb, cbPc, d)} :
       /\ cb' = run.cb
       /\ cbPc' = run.pc
       /\ cbLast' = [site |-> cbPc.site, cx |-> cbPc.cx, d |-> d, became |-> Became(cb, run.cb)]
  /\ UNCHANGED coder
  /\ UNCHANGED <<ttVars, dwt, jp2>>

\* a decode_bit of the MockCoder, and decode runs on to its next decode_bit
MockDecodeBit ==
  /\ cbPc.phase = "wait" /\ coder.kind = "mock"
  /\ \E m \in {mock_decode_bit(coder, cbPc.cx)} :
       /\ coder' = m.coder
       /\ IF m.res # "ok"
          THEN /\ cb' = cb
               /\ cbPc' = [cbPc EXCEPT !.phase = "panic", !.why = m.res]
               /\ cbLast' = [site |-> cbPc.site, cx |-> cbPc.cx, d |-> 0, became |-> {}]
          ELSE \E run \in {after_decode_bit(cb, cbPc, m.out)} :
                 /\ cb' = run.cb
                 /\ cbPc' = run.pc
                 /\ cbLast' = [site |-> cbPc.site, cx |-> cbPc.cx, d |-> m.out,
                               became |-> Became(cb, run.cb)]
  /\ UNCHANGED <<ttVars, dwt, jp2>>

NextCB ==
  \/ NumZeroBitPlane
  \/ Decode
  \/ \E d \in {0, 1} : DecodeBit(d)
  \/ MockDecodeBit

SpecCB == InitCB /\ [][NextCB]_vars

(***************************************************************************)
(* Properties of the code-block decoder.                                   *)
(***************************************************************************)
IsSignificantAt(c, i) == c.coefficients[i].t = "Significant"

\* C7: during one decode, whatever the MQ decisions, a coefficient that is
\* significant stays significant (so each coefficient goes from insignificant
\* to significant at most once and never back), and make_significant is never
\* applied to a coefficient that is already significant
C7_SignificantOnce ==
  [][/\ \A i \in 1..Len(cb.coefficients) :
          IsSignificantAt(cb, i) => IsSignificantAt(cb', i)
     /\ cbPc'.why # "doubly significant"]_vars

\* a decode against free decisions has run all its passes over a coefficient
\* that became significant in the first cleanup pass, and over one that never did
C7_Witness ==
  /\ coder.kind = "free" /\ cbPc.phase = "done"
  /\ \E i \in 1..Len(cb.coefficients) : IsSignificantAt(cb, i) /\ cb.coefficients[i].value >= 4
  /\ \E i \in 1..Len(cb.coefficients) : ~IsSignificantAt(cb, i)

\* the coefficient (numbered from 1) a pending decode_bit is about
PendingCoeff == cb.width * cbPc.y + cbPc.x + 1

\* C8: when a coefficient becomes significant (significance pass, cleanup pass,
\* run-length branch) the very next decision requested is the sign decision of
\* that one coefficient, and a sign decision is requested at no other time:
\* only right after the coefficient it is for became significant
C8_SignFollowsSignificance ==
  /\ cbLast.became # {} =>
       /\ cbPc.phase = "wait" /\ cbPc.site = "sign"
       /\ cbLast.became = {PendingCoeff}
  /\ (cbPc.phase = "wait" /\ cbPc.site = "sign") =>
       /\ cbLast.became = {PendingCoeff}
       /\ cbLast.site \in {"uniform_b", "significance"}
       /\ IsSignificantAt(cb, PendingCoeff)

\* a sign decision has just been taken for a coefficient that became
\* significant in a significance-propagation pass, and it made it negative
C8_Witness ==
  /\ cbLast.site = "sign" /\ cbLast.d = 1
  /\ cbPc.state = "SignificancePropagation" /\ cbPc.phase = "wait"
  /\ \E i \in 1..Len(cb.coefficients) :
       IsSignificantAt(cb, i) /\ cb.coefficients[i].is_negative

\* C9: decode executes exactly as many coding passes as the no_passes it was
\* constructed with
C9_PassesEqualInput ==
  cbPc.phase = "done" => cbPc.pass_number = cb.no_passes

IsJ10b ==
  /\ coder.kind = "mock" /\ coder.exp = J10bTrace
  /\ cb.width = 1 /\ cb.height = 4 /\ cb.subband = "LH" /\ cb.no_passes = 7
  /\ cbPc.zbp = 7

\* C10: the Annex J.10 LH block (1 x 4, 10 bit-planes, 7 of them zero, 7 passes)
\* decoded against the standard's trace: every decode_bit asks for the context
\* the trace has at that place, no assertion fails, decode returns with the
\* whole trace consumed, and the coefficients are 1, 5, 1, 0
C10_AnnexJ10b ==
  IsJ10b =>
    /\ cbPc.phase # "panic"
    /\ cbPc.phase = "new" => cb.bit_plane_shift = 9
    /\ cbPc.phase = "wait" =>
         /\ coder.index < Len(J10bTrace)
         /\ cbPc.cx = J10bTrace[coder.index + 1][1]
    /\ cbPc.phase = "done" =>
         /\ coder.index = Len(J10bTrace)
         /\ cbPc.pass_number = 7
         /\ coefficients(cb, cbPc.build) = Computed(<<1, 5, 1, 0>>)

\* the decode of the Annex J.10 LH block has returned
C10_Witness == IsJ10b /\ cbPc.phase = "done" /\ coder.index = 16

(***************************************************************************)
(* Properties of the bit reader's take and bits_read.                      *)
(***************************************************************************)
\* bit k (from 0) of a byte sequence, most significant bit of each byte first
BitAt(data, k) == (data[(k \div 8) + 1] \div Pow2(7 - (k % 8))) % 2

\* the unsigned integer written by the n bits from bit `from` on
RECURSIVE BitsValue(_, _, _)
BitsValue(data, from, n) ==
  IF n = 0 THEN 0 ELSE 2 * BitsValue(data, from, n - 1) + BitAt(data, from + n - 1)

\* C14: take(N) never overflows, and when it returns it returns the unsigned
\* integer whose binary digits, most significant first, are the N bits it consumed
C14_TakeReturnsTheBits ==
  ttLast.op = "take" =>
    /\ ttLast.res # "panic"
    /\ ttLast.res = "ok" =>
         ttLast.value = BitsValue(br.data, Delivered(br) - ttLast.bound, ttLast.bound)

\* C15: after any sequence of next_bit and take calls, failed ones included,
\* bits_read() is the number of bits consumed from the input and delivered
C15_BitsReadIsDelivered ==
  ttDriver = "bits" => bits_read(br) = Delivered(br)

(***************************************************************************)
(* dwt.rs, the 5-3 reversible path of DwtProcessor.                        *)
(* A sample is an f64 that holds an integer or, after `/ 2.0`, a dyadic    *)
(* fraction; the model keeps each sample multiplied by Unit, which makes   *)
(* every value it meets an integer (one halving per direction and level at *)
(* most).  Coordinates are i32 and origins are not negative.  A signal is  *)
(* a sequence, sample i of the range [i0, il) at position i - i0 + 1.      *)
(* A Rust index out of bounds is the outcome Panicked.                     *)
(***************************************************************************)
MaxLevels == 2

Unit == Pow2(2 * MaxLevels)

\* (q / d).floor() of f64 values, d a whole number
FloorDiv(q, d) == (q \div (d * Unit)) * Unit

\* i32 `/` and `%`: the quotient is truncated towards zero
Abs(a) == IF a >= 0 THEN a ELSE -a
TruncDiv(a, b) ==
  IF (a >= 0) = (b > 0) THEN Abs(a) \div Abs(b) ELSE -(Abs(a) \div Abs(b))
TruncRem(a, b) == a - b * TruncDiv(a, b)

\* (a as f64 / 2.0).ceil() as i32
CeilHalf(a) == (a + 1) \div 2

pse_o(i, i0, il) ==
  IF il - i0 = 0 THEN i0
  ELSE CHOOSE r \in {i0 + (IF idx >= il - i0 THEN 2 * (il - i0) - 1 - idx ELSE idx) :
                     idx \in {TruncRem(TruncRem(i - i0, 2 * (il - i0)) + 2 * (il - i0),
                                       2 * (il - i0))}} : TRUE

\* total_len is a sum of three usize: a negative i32 is 2^64 less its size as
\* a usize, so that a sum that comes out negative is more than a Vec can hold
\* (capacity overflow), and one that does not has overflowed (a debug build
\* panics, a release build wraps)
extend_signal_1d(y, i0, il, i_left, i_right, build) ==
  IF il - i0 + i_left + i_right < 0 THEN Panicked
  ELSE IF (il - i0 < 0 \/ i_left < 0 \/ i_right < 0) /\ build = "debug" THEN Panicked
  ELSE CHOOSE r \in {
      IF \E k \in DOMAIN src : src[k] - i0 + 1 \notin 1..Len(y) THEN Panicked
      ELSE Computed([k \in DOMAIN src |-> y[src[k] - i0 + 1]])
    : src \in {[k \in 1..(il - i0 + i_left + i_right) |->
                  pse_o(i0 - i_left + k - 1, i0, il)]}} : TRUE

get_extension_params_r(i0, il) ==
  [i_left  |-> IF TruncRem(i0, 2) = 0 THEN 1 ELSE 2,
   i_right |-> IF TruncRem(il, 2) = 1 THEN 1 ELSE 2]

get_extension_params_d(i0, il) ==
  [i_left  |-> IF TruncRem(i0, 2) = 0 THEN 2 ELSE 1,
   i_right |-> IF TruncRem(il, 2) = 1 THEN 2 ELSE 1]

\* get_ext_idx of the two filters, as a position of the extended sequence
get_ext_idx(i, i0, ext_offset) == i - (i0 - ext_offset) + 1

\* a sample at idx, read through pse_o when idx is outside [i0, il): the
\* closure get_y of filter_1d_53r_decomp and the x_2n, x_2n_p2 of filter_1d_53r
get_reflected(x, idx, i0, il) ==
  IF idx >= i0 /\ idx < il THEN x[idx - i0 + 1] ELSE x[pse_o(idx, i0, il) - i0 + 1]

\* step 1 of filter_1d_53r from n on: the even samples X(2n)
RECURSIVE filter_1d_53r_step1(_, _, _, _, _, _)
filter_1d_53r_step1(x0, y_ext, i0, il, ext_offset, n) ==
  CHOOSE r \in {
      IF n > (il - 1) \div 2 THEN x
      ELSE filter_1d_53r_step1(
             IF 2 * n >= i0 /\ 2 * n < il
             THEN [x EXCEPT ![2 * n - i0 + 1] =
                     y_ext[get_ext_idx(2 * n, i0, ext_offset)]
                     - FloorDiv(y_ext[get_ext_idx(2 * n - 1, i0, ext_offset)]
                                + y_ext[get_ext_idx(2 * n + 1, i0, ext_offset)]
                                + 2 * Unit, 4)]
             ELSE x,
             y_ext, i0, il, ext_offset, n + 1)
    : x \in {x0}} : TRUE

\* the loop of step 2 of filter_1d_53r from n on: the odd samples X(2n+1)
RECURSIVE filter_1d_53r_odd(_, _, _, _, _, _)
filter_1d_53r_odd(x0, y_ext, i0, il, ext_offset, n) ==
  CHOOSE r \in {
      IF n > (il - 2) \div 2 THEN x
      ELSE filter_1d_53r_odd(
             IF 2 * n + 1 >= i0 /\ 2 * n + 1 < il
             THEN [x EXCEPT ![2 * n + 1 - i0 + 1] =
                     y_ext[get_ext_idx(2 * n + 1, i0, ext_offset)]
                     + FloorDiv(get_reflected(x, 2 * n, i0, il)
                                + get_reflected(x, 2 * n + 2, i0, il), 2)]
             ELSE x,
             y_ext, i0, il, ext_offset, n + 1)
    : x \in {x0}} : TRUE

\* step 2 of filter_1d_53r: x is extended first (the extension is not used,
\* but extending an empty x panics), then the loop runs from n on
filter_1d_53r_step2(x, y_ext, i0, il, ext_offset, n, build) ==
  IF ~extend_signal_1d(x, i0, il, ext_offset, ext_offset, build).ok THEN Panicked
  ELSE Computed(filter_1d_53r_odd(x, y_ext, i0, il, ext_offset, n))

\* vec![0.0; (il - i0) as usize] of a negative length is a capacity overflow
filter_1d_53r(y_ext, i0, il, ext_offset, build) ==
  IF il - i0 < 0 THEN Panicked
  ELSE filter_1d_53r_step2(
    filter_1d_53r_step1([k \in 1..(il - i0) |-> 0], y_ext, i0, il, ext_offset, CeilHalf(i0)),
    y_ext, i0, il, ext_offset, i0 \div 2, build)

\* step 1 of filter_1d_53r_decomp from n on: the odd samples Y(2n+1)
RECURSIVE filter_1d_53r_decomp_step1(_, _, _, _, _, _)
filter_1d_53r_decomp_step1(y0, x_ext, i0, il, ext_offset, n) ==
  CHOOSE r \in {
      IF n > TruncDiv(il - 2, 2) THEN y
      ELSE filter_1d_53r_decomp_step1(
             IF 2 * n + 1 >= i0 /\ 2 * n + 1 < il
             THEN [y EXCEPT ![2 * n + 1 - i0 + 1] =
                     x_ext[get_ext_idx(2 * n + 1, i0, ext_offset)]
                     - FloorDiv(x_ext[get_ext_idx(2 * n, i0, ext_offset)]
                                + x_ext[get_ext_idx(2 * n + 2, i0, ext_offset)], 2)]
             ELSE y,
             x_ext, i0, il, ext_offset, n + 1)
    : y \in {y0}} : TRUE

\* step 2 of filter_1d_53r_decomp from n on: the even samples Y(2n)
RECURSIVE filter_1d_53r_decomp_step2(_, _, _, _, _, _)
filter_1d_53r_decomp_step2(y0, x_ext, i0, il, ext_offset, n) ==
  CHOOSE r \in {
      IF n > TruncDiv(il - 1, 2) THEN y
      ELSE filter_1d_53r_decomp_step2(
             IF 2 * n >= i0 /\ 2 * n < il
             THEN [y EXCEPT ![2 * n - i0 + 1] =
                     x_ext[get_ext_idx(2 * n, i0, ext_offset)]
                     + FloorDiv(get_reflected(y, 2 * n - 1, i0, il)
                                + get_reflected(y, 2 * n + 1, i0, il)
                                + 2 * Unit, 4)]
             ELSE y,
             x_ext, i0, il, ext_offset, n + 1)
    : y \in {y0}} : TRUE

\* vec![0.0; (il - i0) as usize] of a negative length is a capacity overflow
filter_1d_53r_decomp(x_ext, i0, il, ext_offset) ==
  IF il - i0 < 0 THEN Panicked
  ELSE Computed(filter_1d_53r_decomp_step2(
    filter_1d_53r_decomp_step1([k \in 1..(il - i0) |-> 0], x_ext, i0, il, ext_offset,
                               TruncDiv(i0 - 1, 2)),
    x_ext, i0, il, ext_offset, TruncDiv(i0, 2)))

subband_reconstruct_1d(y, i0, il, build) ==
  IF il - i0 = 1
  THEN IF Len(y) = 0 THEN Panicked
       ELSE IF TruncRem(i0, 2) = 0 THEN Computed(<<y[1]>>) ELSE Computed(<<y[1] \div 2>>)
  ELSE CHOOSE r \in {
           IF y_ext.ok
           THEN filter_1d_53r(y_ext.v, i0, il, get_extension_params_r(i0, il).i_left, build)
           ELSE Panicked
         : y_ext \in {extend_signal_1d(y, i0, il, get_extension_params_r(i0, il).i_left,
                                       get_extension_params_r(i0, il).i_right, build)}} : TRUE

subband_decompose_1d(x, i0, il, build) ==
  IF il - i0 = 1
  THEN IF Len(x) = 0 THEN Panicked
       ELSE IF TruncRem(i0, 2) = 0 THEN Computed(<<x[1]>>) ELSE Computed(<<2 * x[1]>>)
  ELSE CHOOSE r \in {
           IF x_ext.ok
           THEN filter_1d_53r_decomp(x_ext.v, i0, il, get_extension_params_d(i0, il).i_left)
           ELSE Panicked
         : x_ext \in {extend_signal_1d(x, i0, il, get_extension_params_d(i0, il).i_left,
                                       get_extension_params_d(i0, il).i_right, build)}} : TRUE

\* Array2D::with_offset: an array is [data, width, height, u0, v0], data in row order
with_offset(width, height, u0, v0) ==
  [data |-> [k \in 1..(width * height) |-> 0],
   width |-> width, height |-> height, u0 |-> u0, v0 |-> v0]

u1(a) == a.u0 + a.width
v1(a) == a.v0 + a.height

\* Array2D::get: row * width + col in usize, col and row from i32 differences;
\* with a negative difference a debug build panics (on the overflow, or on an
\* index out of bounds) and a release build wraps
get(a, u, v, build) ==
  IF (u - a.u0 < 0 \/ v - a.v0 < 0) /\ build = "debug" THEN Panicked
  ELSE IF (v - a.v0) * a.width + (u - a.u0) + 1 \in 1..Len(a.data)
  THEN Computed(a.data[(v - a.v0) * a.width + (u - a.u0) + 1])
  ELSE Panicked

get_row(a, v) == SubSeq(a.data, (v - a.v0) * a.width + 1, (v - a.v0 + 1) * a.width)

get_column(a, u) == [row \in 1..a.height |-> a.data[(row - 1) * a.width + (u - a.u0) + 1]]

\* 1D_SR ("sr") or 1D_SD ("sd")
subband_1d(proc, s, i0, il, build) ==
  IF proc = "sr" THEN subband_reconstruct_1d(s, i0, il, build)
  ELSE subband_decompose_1d(s, i0, il, build)

\* for v in v0..v1 { get_row; 1-D procedure; set_row }
each_row(a, proc, build) ==
  IF a.height <= 0 THEN Computed(a)
  ELSE CHOOSE r \in {
      IF \E k \in DOMAIN rows : ~rows[k].ok THEN Panicked
      ELSE Computed([a EXCEPT !.data =
             [k \in 1..Len(a.data) |->
                rows[((k - 1) \div a.width) + 1].v[((k - 1) % a.width) + 1]]])
    : rows \in {[k \in 1..a.height |->
                   subband_1d(proc, get_row(a, a.v0 + k - 1), a.u0, u1(a), build)]}} : TRUE

\* for u in u0..u1 { get_column; 1-D procedure; set_column }
each_column(a, proc, build) ==
  IF a.width <= 0 THEN Computed(a)
  ELSE CHOOSE r \in {
      IF \E k \in DOMAIN cols : ~cols[k].ok THEN Panicked
      ELSE Computed([a EXCEPT !.data =
             [k \in 1..Len(a.data) |->
                cols[((k - 1) % a.width) + 1].v[((k - 1) \div a.width) + 1]]])
    : cols \in {[k \in 1..a.width |->
                   subband_1d(proc, get_column(a, a.u0 + k - 1), a.v0, v1(a), build)]}} : TRUE

horizontal_reconstruct(a, build) == each_row(a, "sr", build)
vertical_reconstruct(a, build) == each_column(a, "sr", build)
horizontal_decompose(a, build) == each_row(a, "sd", build)
vertical_decompose(a, build) == each_column(a, "sd", build)

\* the read of a sub-band in interleave_2d: 0.0 outside the sub-band
get_or_zero(b, bu, bv, build) ==
  IF bu >= b.u0 /\ bu < u1(b) /\ bv >= b.v0 /\ bv < v1(b) THEN get(b, bu, bv, build).v ELSE 0

\* the array interleave_2d fills: u_1 - u0 columns and v_1 - v0 rows
interleaved(subbands, u0, v0, u_1, v_1, build) ==
  [width |-> u_1 - u0, height |-> v_1 - v0, u0 |-> u0, v0 |-> v0,
   data |-> [k \in 1..((u_1 - u0) * (v_1 - v0)) |->
     CHOOSE x \in {
         IF TruncRem(c.v, 2) = 0
         THEN IF TruncRem(c.u, 2) = 0
              THEN get_or_zero(subbands.ll, TruncDiv(c.u, 2), TruncDiv(c.v, 2), build)
              ELSE get_or_zero(subbands.hl, TruncDiv(c.u - 1, 2), TruncDiv(c.v, 2), build)
         ELSE IF TruncRem(c.u, 2) = 0
              THEN get_or_zero(subbands.lh, TruncDiv(c.u, 2), TruncDiv(c.v - 1, 2), build)
              ELSE get_or_zero(subbands.hh, TruncDiv(c.u - 1, 2), TruncDiv(c.v - 1, 2), build)
       : c \in {[u |-> u0 + ((k - 1) % (u_1 - u0)), v |-> v0 + ((k - 1) \div (u_1 - u0))]}}
       : TRUE]]

\* interleave_2d: width and height are (u1 - u0) as usize and (v1 - v0) as
\* usize, a negative difference 2^64 less its size (kept here as the negative
\* number).  Array2D::with_offset allocates width * height samples: with one
\* of them negative and the other positive that is more than a Vec can hold;
\* with both negative a debug build panics on the product and a release
\* build wraps it, and no sample is written (v0..v1 is empty)
interleave_2d(subbands, u0, v0, u_1, v_1, build) ==
  IF u_1 - u0 >= 0 /\ v_1 - v0 >= 0
  THEN Computed(interleaved(subbands, u0, v0, u_1, v_1, build))
  ELSE IF u_1 - u0 = 0 \/ v_1 - v0 = 0
  THEN Computed([width |-> u_1 - u0, height |-> v_1 - v0, u0 |-> u0, v0 |-> v0,
                 data |-> << >>])
  ELSE IF u_1 - u0 < 0 /\ v_1 - v0 < 0 /\ build = "release"
  THEN Computed([width |-> u_1 - u0, height |-> v_1 - v0, u0 |-> u0, v0 |-> v0,
                 data |-> [k \in 1..((u_1 - u0) * (v_1 - v0)) |-> 0]])
  ELSE Panicked

\* the sub-band deinterleave_2d fills with the samples of a at the columns
\* u = 2 * bu + du and the rows v = 2 * bv + dv
deinterleaved(a, du, dv, build) ==
  CHOOSE b \in {
      [width |-> d.width, height |-> d.height, u0 |-> d.u0, v0 |-> d.v0,
       data |-> [k \in 1..(d.width * d.height) |->
         CHOOSE x \in {
             IF c.u >= a.u0 /\ c.u < u1(a) /\ c.v >= a.v0 /\ c.v < v1(a)
             THEN get(a, c.u, c.v, build).v ELSE 0
           : c \in {[u |-> 2 * (d.u0 + ((k - 1) % d.width)) + du,
                     v |-> 2 * (d.v0 + ((k - 1) \div d.width)) + dv]}} : TRUE]]
    : d \in {[u0 |-> CeilHalf(a.u0 - du), v0 |-> CeilHalf(a.v0 - dv),
              width |-> Max(CeilHalf(u1(a) - du) - CeilHalf(a.u0 - du), 0),
              height |-> Max(CeilHalf(v1(a) - dv) - CeilHalf(a.v0 - dv), 0)]}} : TRUE

deinterleave_2d(a, build) ==
  [ll |-> deinterleaved(a, 0, 0, build), hl |-> deinterleaved(a, 1, 0, build),
   lh |-> deinterleaved(a, 0, 1, build), hh |-> deinterleaved(a, 1, 1, build)]

subband_reconstruct_2d(subbands, u0, v0, u_1, v_1, build) ==
  CHOOSE r \in {
      IF ~a.ok THEN Panicked
      ELSE CHOOSE r2 \in {
               IF h.ok THEN vertical_reconstruct(h.v, build) ELSE Panicked
             : h \in {horizontal_reconstruct(a.v, build)}} : TRUE
    : a \in {interleave_2d(subbands, u0, v0, u_1, v_1, build)}} : TRUE

subband_decompose_2d(a, build) ==
  CHOOSE r \in {
      IF ~v.ok THEN Panicked
      ELSE CHOOSE r2 \in {
               IF h.ok THEN Computed(deinterleave_2d(h.v, build)) ELSE Panicked
             : h \in {horizontal_decompose(v.v, build)}} : TRUE
    : v \in {vertical_decompose(a, build)}} : TRUE

\* the loop of idwt at lev (counted from 1), down to level 1
RECURSIVE idwt_from(_, _, _, _)
idwt_from(current0, all_subbands, lev, build) ==
  CHOOSE r \in {
      IF lev = 0 THEN Computed(lb.ll)
      ELSE CHOOSE r2 \in {
               IF rec.ok THEN idwt_from(rec.v, all_subbands, lev - 1, build) ELSE Panicked
             : rec \in {subband_reconstruct_2d(
                   lb,
                   Min(lb.ll.u0 * 2, lb.hl.u0 * 2 + 1),
                   Min(lb.ll.v0 * 2, lb.lh.v0 * 2 + 1),
                   Min(lb.ll.u0 * 2, lb.hl.u0 * 2 + 1) + lb.ll.width + lb.hl.width,
                   Min(lb.ll.v0 * 2, lb.lh.v0 * 2 + 1) + lb.ll.height + lb.lh.height,
                   build)}}
             : TRUE
    : lb \in {IF lev = 0
              THEN [ll |-> current0]
              ELSE [ll |-> current0, hl |-> all_subbands[lev].hl,
                    lh |-> all_subbands[lev].lh, hh |-> all_subbands[lev].hh]}} : TRUE

idwt(all_subbands, n_levels, build) ==
  IF Len(all_subbands) = 0 \/ Len(all_subbands) # n_levels THEN Panicked
  ELSE idwt_from(all_subbands[1].ll, all_subbands, n_levels, build)

\* the loop of fdwt with `left` levels to go
RECURSIVE fdwt_from(_, _, _, _)
fdwt_from(result, current, left, build) ==
  IF left = 0 THEN Computed(result)
  ELSE CHOOSE r \in {
           IF sb.ok THEN fdwt_from(Append(result, sb.v), sb.v.ll, left - 1, build)
           ELSE Panicked
         : sb \in {subband_decompose_2d(current, build)}} : TRUE

fdwt(input, n_levels, build) == fdwt_from(<< >>, input, n_levels, build)

round_trip(input, n_levels, build) ==
  CHOOSE r \in {
      IF subbands.ok THEN idwt(subbands.v, n_levels, build) ELSE Panicked
    : subbands \in {fdwt(input, n_levels, build)}} : TRUE

(***************************************************************************)
(* Uses of the DwtProcessor.                                               *)
(*   kind "2d": fdwt on an input array, then idwt on what fdwt returned    *)
(*              (round_trip makes the two calls in one)                    *)
(*   kind "1d": subband_decompose_1d and subband_reconstruct_1d on a       *)
(*              signal of the range [i0, il)                               *)
(***************************************************************************)
MaxSample == 2

\* <<width, height, u0, v0>> of the input arrays
DwtShapes ==
  {<<1, 1, 0, 0>>, <<1, 1, 1, 0>>, <<1, 1, 0, 1>>, <<1, 1, 1, 1>>,
   <<2, 1, 0, 0>>, <<2, 1, 1, 0>>, <<1, 2, 0, 0>>, <<1, 2, 0, 1>>,
   <<3, 1, 0, 0>>, <<1, 3, 0, 1>>, <<2, 2, 0, 0>>, <<2, 2, 1, 1>>}

\* whole-number samples as the model keeps them
Scaled(s) == [k \in DOMAIN s |-> s[k] * Unit]

Samples(n) == {Scaled(s) : s \in [1..n -> 0..MaxSample]}

DwtInputs ==
  UNION {{[data |-> d, width |-> sh[1], height |-> sh[2], u0 |-> sh[3], v0 |-> sh[4]]
            : d \in Samples(sh[1] * sh[2])} : sh \in DwtShapes}

\* the interleaved coefficients of the one-dimensional example of Annex J.10
J10Coefficients == <<-26, 1, -22, 5, -30, 1, -32, 0, -19>>

\* the signal of tests::test_1d_roundtrip_53_simple
TestSignal == <<1, 2, 3, 4, 5, 6, 7, 8>>

Signal(proc, s, i0, build) ==
  [kind |-> "1d", build |-> build, proc |-> proc, s |-> s, i0 |-> i0, il |-> i0 + Len(s),
   pc |-> "new", y |-> Computed(<< >>), x |-> Computed(<< >>)]

DwtSignals ==
  {Signal("sr", Scaled(J10Coefficients), 0, build) : build \in Builds}
  \cup {Signal("sd", Scaled(TestSignal), 0, build) : build \in Builds}
  \cup {Signal("sd", s, i0, build) :
          s \in Samples(1) \cup Samples(2) \cup Samples(3), i0 \in 0..1, build \in Builds}

InitDWT ==
  /\ dwt \in DwtSignals
           \cup {[kind |-> "2d", build |-> build, input |-> a, n_levels |-> n, pc |-> "new",
                  subbands |-> Computed(<< >>), output |-> Computed(<< >>)]
                   : a \in DwtInputs, n \in 1..MaxLevels, build \in Builds}
  /\ jp2 = NoFile
  /\ ttKind = "zero"
  /\ tt = TagTreeDecoderNew(1, 1)
  /\ br = BitReaderNew(<<0>>)
  /\ ttDriver = "free"
  /\ ttArray = << >>
  /\ ttLog = << >>
  /\ ttLast = NoCall
  /\ cb = CodeBlockDecoderNew(1, 4, "LH", 7, 10)
  /\ coder = [kind |-> "free", exp |-> << >>, index |-> 0]
  /\ cbPc = [phase |-> "new", build |-> "debug", zbp |-> 7, pass_number |-> 0,
             state |-> "CleanUp", by |-> 0, x |-> 0, y |-> 0,
             site |-> "none", cx |-> 0, a |-> 0, why |-> ""]
  /\ cbLast = NoDecision

\* processor.fdwt(&input, n_levels)
Fdwt ==
  /\ dwt.kind = "2d" /\ dwt.pc = "new"
  /\ dwt' = [dwt EXCEPT !.pc = "fdwt", !.subbands = fdwt(dwt.input, dwt.n_levels, dwt.build)]
  /\ UNCHANGED <<ttVars, cbVars, jp2>>

\* processor.idwt(&subbands, n_levels) on the sub-bands fdwt returned
Idwt ==
  /\ dwt.kind = "2d" /\ dwt.pc = "fdwt" /\ dwt.subbands.ok
  /\ dwt' = [dwt EXCEPT !.pc = "idwt", !.output = idwt(dwt.subbands.v, dwt.n_levels, dwt.build)]
  /\ UNCHANGED <<ttVars, cbVars, jp2>>

\* processor.round_trip(&input, n_levels)
RoundTrip ==
  /\ dwt.kind = "2d" /\ dwt.pc = "new"
  /\ \E s \in {fdwt(dwt.input, dwt.n_levels, dwt.build)} :
       dwt' = [dwt EXCEPT !.pc = IF s.ok THEN "idwt" ELSE "fdwt",
                          !.subbands = s,
                          !.output = IF s.ok THEN idwt(s.v, dwt.n_levels, dwt.build)
                                     ELSE Computed(<< >>)]
  /\ UNCHANGED <<ttVars, cbVars, jp2>>

\* processor.subband_decompose_1d(&x, i0, il)
SubbandDecompose1D ==
  /\ dwt.kind = "1d" /\ dwt.proc = "sd" /\ dwt.pc = "new"
  /\ dwt' = [dwt EXCEPT !.pc = "sd", !.y = subband_decompose_1d(dwt.s, dwt.i0, dwt.il, dwt.build)]
  /\ UNCHANGED <<ttVars, cbVars, jp2>>

\* processor.subband_reconstruct_1d(&y, i0, il), on given coefficients or on
\* the coefficients subband_decompose_1d returned
SubbandReconstruct1D ==
  /\ dwt.kind = "1d"
  /\ \/ dwt.proc = "sr" /\ dwt.pc = "new"
        /\ dwt' = [dwt EXCEPT !.pc = "sr", !.y = Computed(dwt.s),
                              !.x = subband_reconstruct_1d(dwt.s, dwt.i0, dwt.il, dwt.build)]
     \/ dwt.proc = "sd" /\ dwt.pc = "sd" /\ dwt.y.ok
        /\ dwt' = [dwt EXCEPT !.pc = "sr",
                              !.x = subband_reconstruct_1d(dwt.y.v, dwt.i0, dwt.il, dwt.build)]
  /\ UNCHANGED <<ttVars, cbVars, jp2>>

NextDWT == Fdwt \/ Idwt \/ RoundTrip \/ SubbandDecompose1D \/ SubbandReconstruct1D

SpecDWT == InitDWT /\ [][NextDWT]_vars

(***************************************************************************)
(* Properties of the wavelet transform.                                    *)
(***************************************************************************)
\* C11: the 5-3 forward transform followed by the 5-3 inverse transform with
\* the same level count returns an array of the input's dimensions whose every
\* sample equals the input's
C11_RoundTripIsExact ==
  dwt.kind = "2d" =>
    /\ dwt.pc = "fdwt" => dwt.subbands.ok
    /\ dwt.pc = "idwt" =>
         /\ dwt.output.ok
         /\ dwt.output.v.width = dwt.input.width
         /\ dwt.output.v.height = dwt.input.height
         /\ dwt.output.v.data = dwt.input.data

\* the number of coefficients of a sub-band
Count(b) == b.width * b.height

RECURSIVE DetailCount(_, _)
DetailCount(all_subbands, r) ==
  IF r = 0 THEN 0
  ELSE Count(all_subbands[r].hl) + Count(all_subbands[r].lh) + Count(all_subbands[r].hh)
       + DetailCount(all_subbands, r - 1)

\* C12: the forward transform returns N levels of sub-bands, and the count of
\* LL_N plus the counts of HL_r, LH_r and HH_r for r = 1..N is W * H
C12_SubbandsPartition ==
  dwt.kind = "2d" /\ dwt.pc # "new" =>
    /\ dwt.subbands.ok
    /\ Len(dwt.subbands.v) = dwt.n_levels
    /\ Count(dwt.subbands.v[dwt.n_levels].ll) + DetailCount(dwt.subbands.v, dwt.n_levels)
         = dwt.input.width * dwt.input.height

\* the samples of the one-dimensional example of Annex J.10
J10Samples == <<101, 103, 104, 105, 96, 97, 96, 102, 109>>

\* C13: subband_reconstruct_1d of the nine coefficients of Annex J.10 on [0, 9)
\* returns the samples 101, 103, 104, 105, 96, 97, 96, 102, 109 less the level
\* shift of 128
C13_AnnexJ10Samples ==
  dwt.kind = "1d" /\ dwt.proc = "sr" /\ dwt.pc = "sr" /\ dwt.s = Scaled(J10Coefficients) =>
    /\ dwt.x.ok
    /\ Len(dwt.x.v) = Len(J10Samples)
    /\ \A k \in 1..Len(J10Samples) : dwt.x.v[k] + 128 * Unit = J10Samples[k] * Unit

(***************************************************************************)
(* jp2/src/lib.rs: decode_jp2 and the box decoders it calls.               *)
(* The reader is [data, pos]: the bytes of the file and the stream         *)
(* position.  A decoder returns [res, pos, ...] with res "ok", "err" (an   *)
(* Err, its kind in `err`), "panic" or "abort" (an allocation that fails   *)
(* ends the process).  A u64 is kept exactly, as its four 16-bit limbs,    *)
(* the most significant first; a number of bytes to read is a number      *)
(* below 2^30, or Huge for every one from 2^30 on.  A stream position      *)
(* within 2^30 is the number `pos`; one beyond, where a seek can take the  *)
(* stream, is the u64 `far`, and `pos` is then Huge.                       *)
(***************************************************************************)
BOX_TYPE_SIGNATURE == <<106, 80, 32, 32>>
BOX_TYPE_FILE_TYPE == <<102, 116, 121, 112>>
BOX_TYPE_HEADER == <<106, 112, 50, 104>>
BOX_TYPE_IMAGE_HEADER == <<105, 104, 100, 114>>
BOX_TYPE_BITS_PER_COMPONENT == <<98, 112, 99, 99>>
BOX_TYPE_COLOUR_SPECIFICATION == <<99, 111, 108, 114>>
BOX_TYPE_PALETTE == <<112, 99, 108, 114>>
BOX_TYPE_COMPONENT_MAPPING == <<99, 109, 97, 112>>
BOX_TYPE_CHANNEL_DEFINITION == <<99, 100, 101, 102>>
BOX_TYPE_RESOLUTION == <<114, 101, 115, 32>>
BOX_TYPE_CAPTURE_RESOLUTION == <<114, 101, 115, 99>>
BOX_TYPE_DEFAULT_DISPLAY_RESOLUTION == <<114, 101, 115, 100>>
BOX_TYPE_CONTIGUOUS_CODESTREAM == <<106, 112, 50, 99>>
BOX_TYPE_INTELLECTUAL_PROPERTY == <<106, 112, 50, 105>>
BOX_TYPE_XML == <<120, 109, 108, 32>>
BOX_TYPE_UUID == <<117, 117, 105, 100>>
BOX_TYPE_UUID_INFO == <<117, 105, 110, 102>>
BOX_TYPE_UUID_LIST == <<117, 108, 115, 116>>
BOX_TYPE_DATA_ENTRY_URL == <<117, 114, 108, 32>>
BRAND_JP2 == <<106, 112, 50, 32>>
BRAND_JPX == <<106, 112, 120, 32>>
SIGNATURE_MAGIC == <<13, 10, 135, 10>>
ENUMERATED_COLOUR_SPACE_CIELAB == <<0, 0, 0, 14>>
ENUMERATED_COLOUR_SPACE_SRGB == <<0, 0, 0, 16>>
ENUMERATED_COLOUR_SPACE_CIEJAB == <<0, 0, 0, 19>>

\* BoxTypes::new
BoxTypes_new(value) ==
  CASE value = BOX_TYPE_SIGNATURE -> "Signature"
    [] value = BOX_TYPE_FILE_TYPE -> "FileType"
    [] value = BOX_TYPE_HEADER -> "Header"
    [] value = BOX_TYPE_IMAGE_HEADER -> "ImageHeader"
    [] value = BOX_TYPE_BITS_PER_COMPONENT -> "BitsPerComponent"
    [] value = BOX_TYPE_COLOUR_SPECIFICATION -> "ColourSpecification"
    [] value = BOX_TYPE_PALETTE -> "Palette"
    [] value = BOX_TYPE_COMPONENT_MAPPING -> "ComponentMapping"
    [] value = BOX_TYPE_CHANNEL_DEFINITION -> "ChannelDefinition"
    [] value = BOX_TYPE_RESOLUTION -> "Resolution"
    [] value = BOX_TYPE_CAPTURE_RESOLUTION -> "CaptureResolution"
    [] value = BOX_TYPE_DEFAULT_DISPLAY_RESOLUTION -> "DefaultDisplayResolution"
    [] value = BOX_TYPE_CONTIGUOUS_CODESTREAM -> "ContiguousCodestream"
    [] value = BOX_TYPE_INTELLECTUAL_PROPERTY -> "IntellectualProperty"
    [] value = BOX_TYPE_XML -> "Xml"
    [] value = BOX_TYPE_UUID -> "Uuid"
    [] value = BOX_TYPE_UUID_INFO -> "UUIDInfo"
    [] value = BOX_TYPE_UUID_LIST -> "UUIDList"
    [] value = BOX_TYPE_DATA_ENTRY_URL -> "DataEntryURL"
    [] OTHER -> "Unknown"

\* a number of bytes, or a stream position, from 2^30 on: more than any file
\* of the model holds
Huge == U32_MAX - 1

\* a limb of a u64 is below 2^16
Limb == Pow2(16)

\* the u64 of a number below 2^31
u64(n) == <<0, 0, n \div Limb, n % Limb>>

\* u16 / u32 / u64 ::from_be_bytes (and `as u64`): the bytes, most
\* significant first, two to a limb
from_be_bytes(b) ==
  CHOOSE v \in {[k \in 1..4 |-> 256 * p[2 * k - 1] + p[2 * k]]
                : p \in {[k \in 1..(8 - Len(b)) |-> 0] \o b}} : TRUE

\* a < b on u64
lt(a, b) == \E k \in 1..4 : a[k] < b[k] /\ \A i \in 1..(k - 1) : a[i] = b[i]

\* what a - b borrows from limb k - 1: 1 when the limbs from k on of a are
\* below those of b
RECURSIVE borrow(_, _, _)
borrow(a, b, k) ==
  IF k > 4 THEN 0 ELSE IF a[k] - b[k] - borrow(a, b, k + 1) < 0 THEN 1 ELSE 0

\* a - b modulo 2^64
wrapping_sub(a, b) == [k \in 1..4 |-> (a[k] - b[k] - borrow(a, b, k + 1)) % Limb]

\* a - k on u64 (or usize): below zero a debug build panics, a release build wraps
checked_sub(a, k, build) ==
  IF lt(a, u64(k)) /\ build = "debug" THEN Panicked
  ELSE Computed(wrapping_sub(a, u64(k)))

\* a u64 as a number of bytes: itself below 2^30, Huge from 2^30 on
as_usize(a) ==
  IF a[1] = 0 /\ a[2] = 0 /\ a[3] < Pow2(14) THEN a[3] * Limb + a[4] ELSE Huge

\* a u64 `as i64` is negative from 2^63 on
is_negative(a) == a[1] >= Pow2(15)

\* what a + b carries into limb k - 1
RECURSIVE carry(_, _, _)
carry(a, b, k) ==
  IF k > 4 THEN 0 ELSE IF a[k] + b[k] + carry(a, b, k + 1) >= Limb THEN 1 ELSE 0

\* a + b modulo 2^64
wrapping_add(a, b) == [k \in 1..4 |-> (a[k] + b[k] + carry(a, b, k + 1)) % Limb]

\* the n bytes at the stream position
peek(r, n) == SubSeq(r.data, r.pos + 1, r.pos + n)

\* reader.read_exact of n bytes: Ok with the position moved on, or
\* UnexpectedEof with the position at the end; a read of no byte is Ok
\* wherever the position is
read_exact(r, n) ==
  IF n = 0 THEN [res |-> "ok", err |-> "", pos |-> r.pos]
  ELSE IF n > 0 /\ n < Huge /\ r.pos <= Len(r.data) /\ r.pos + n <= Len(r.data)
  THEN [res |-> "ok", err |-> "", pos |-> r.pos + n]
  ELSE [res |-> "err", err |-> "UnexpectedEof", pos |-> Len(r.data)]

\* outcomes of a decoder
Ok(pos) == [res |-> "ok", err |-> "", pos |-> pos]
Err(kind, pos) == [res |-> "err", err |-> kind, pos |-> pos]
Abort(pos) == [res |-> "panic", err |-> "", pos |-> pos]
\* 'memory allocation of n bytes failed': the process is aborted
AllocationFailure(pos) == [res |-> "abort", err |-> "", pos |-> pos]

at(r, pos) == [r EXCEPT !.pos = pos]

\* reader.stream_position()
stream_position(r) == IF r.pos < Huge THEN u64(r.pos) ELSE r.far

\* outcomes that leave the stream at the u64 position p
Sought(p) == [res |-> "ok", err |-> "", pos |-> as_usize(p), far |-> p]
SeekError(r) ==
  [res |-> "err", err |-> "InvalidInput", pos |-> r.pos, far |-> stream_position(r)]

\* reader.seek(SeekFrom::Current(n as i64)): the position plus n, an error
\* (and the position unchanged) when that is below zero or beyond u64
seek_current(r, n) ==
  IF is_negative(n)
  THEN IF lt(stream_position(r), wrapping_sub(u64(0), n)) THEN SeekError(r)
       ELSE Sought(wrapping_add(stream_position(r), n))
  ELSE IF carry(stream_position(r), n, 1) = 1 THEN SeekError(r)
       ELSE Sought(wrapping_add(stream_position(r), n))

\* vec![0; n] or Vec::with_capacity(n): more than isize::MAX bytes is the
\* panic 'capacity overflow', and a size the machine does not grant ends the
\* process; `memory` is the most bytes the allocator of the machine grants
allocate(n, memory) ==
  IF is_negative(n) THEN "panic" ELSE IF lt(memory, n) THEN "abort" ELSE "ok"

\* vec![0; n] and read_exact into it
read_vec(r, n, memory) ==
  IF allocate(n, memory) = "panic" THEN Abort(r.pos)
  ELSE IF allocate(n, memory) = "abort" THEN AllocationFailure(r.pos)
  ELSE read_exact(r, as_usize(n))

BoxHeader(res, err, pos, box_length, box_type, header_length) ==
  [res |-> res, err |-> err, pos |-> pos, box_length |-> box_length,
   box_type |-> box_type, header_length |-> header_length]

decode_box_header(r, build) ==
  IF read_exact(r, 4).res # "ok"
  THEN BoxHeader("err", "UnexpectedEof", Len(r.data), u64(0), <<0, 0, 0, 0>>, 8)
  ELSE CHOOSE h \in {
      IF v = u64(0) \/ ~lt(v, u64(8))
      THEN IF read_exact(at(r, r.pos + 4), 4).res # "ok"
           THEN BoxHeader("err", "UnexpectedEof", Len(r.data), u64(0), <<0, 0, 0, 0>>, 8)
           ELSE BoxHeader("ok", "", r.pos + 8,
                          IF v = u64(0) THEN v ELSE checked_sub(v, 8, build).v,
                          peek(at(r, r.pos + 4), 4), 8)
      ELSE IF v = u64(1)
      THEN IF read_exact(at(r, r.pos + 4), 12).res # "ok"
           THEN BoxHeader("err", "UnexpectedEof", Len(r.data), u64(0), <<0, 0, 0, 0>>, 8)
           ELSE CHOOSE h2 \in {
                    IF xl.ok
                    THEN BoxHeader("ok", "", r.pos + 16, xl.v, peek(at(r, r.pos + 4), 4), 16)
                    ELSE BoxHeader("panic", "", r.pos + 16, u64(0), peek(at(r, r.pos + 4), 4), 16)
                  : xl \in {checked_sub(from_be_bytes(peek(at(r, r.pos + 8), 8)), 16, build)}}
                  : TRUE
      ELSE BoxHeader("panic", "", r.pos + 4, v, <<0, 0, 0, 0>>, 8)
    : v \in {from_be_bytes(peek(r, 4))}} : TRUE

\* SignatureBox::decode
SignatureBox_decode(r) ==
  IF read_exact(r, 4).res # "ok" THEN read_exact(r, 4)
  ELSE IF peek(r, 4) # SIGNATURE_MAGIC THEN Err("InvalidSignature", r.pos + 4)
  ELSE Ok(r.pos + 4)

\* the compatibility list: `size` entries of 4 bytes from the stream position
compatibility_list(r, size) == [k \in 1..size |-> peek(at(r, r.pos + 4 * (k - 1)), 4)]

contains(list, value) == \E k \in 1..Len(list) : list[k] = value

\* a byte that continues a UTF-8 sequence
is_continuation(b) == b \in 128..191

\* str::from_utf8(c).is_ok(), from byte k on
RECURSIVE is_utf8(_, _)
is_utf8(c, k) ==
  IF k > Len(c) THEN TRUE
  ELSE IF c[k] < 128 THEN is_utf8(c, k + 1)
  ELSE IF c[k] \in 194..223
  THEN k + 1 <= Len(c) /\ is_continuation(c[k + 1]) /\ is_utf8(c, k + 2)
  ELSE IF c[k] \in 224..239
  THEN /\ k + 2 <= Len(c)
       /\ c[k + 1] \in (IF c[k] = 224 THEN 160..191
                        ELSE IF c[k] = 237 THEN 128..159 ELSE 128..191)
       /\ is_continuation(c[k + 2]) /\ is_utf8(c, k + 3)
  ELSE IF c[k] \in 240..244
  THEN /\ k + 3 <= Len(c)
       /\ c[k + 1] \in (IF c[k] = 240 THEN 144..191
                        ELSE IF c[k] = 244 THEN 128..143 ELSE 128..191)
       /\ is_continuation(c[k + 2]) /\ is_continuation(c[k + 3]) /\ is_utf8(c, k + 4)
  ELSE FALSE

\* FileTypeBox::compatibility_list(), the strings of the entries: it panics
\* (the unwrap of str::from_utf8) on an entry that is not UTF-8
compatibility_strings(list) ==
  IF \A k \in 1..Len(list) : is_utf8(list[k], 1) THEN Computed(list) ELSE Panicked

\* FileTypeBox::decode; the error NotCompatible is built from the strings of
\* the compatibility list
FileTypeBox_decode(r, length, build) ==
  IF read_exact(r, 4).res # "ok" THEN read_exact(r, 4)
  ELSE IF peek(r, 4) = BRAND_JPX THEN Err("Unsupported", r.pos + 4)
  ELSE IF peek(r, 4) # BRAND_JP2 THEN Err("InvalidBrand", r.pos + 4)
  ELSE IF read_exact(at(r, r.pos + 4), 4).res # "ok" THEN read_exact(at(r, r.pos + 4), 4)
  ELSE CHOOSE out \in {
      IF ~d.ok THEN Abort(r.pos + 8)
      ELSE IF as_usize(d.v) = Huge \/ r.pos + 8 + 4 * (as_usize(d.v) \div 4) > Len(r.data)
      THEN Err("UnexpectedEof", Len(r.data))
      ELSE IF ~contains(compatibility_list(at(r, r.pos + 8), as_usize(d.v) \div 4), BRAND_JP2)
      THEN IF compatibility_strings(
                compatibility_list(at(r, r.pos + 8), as_usize(d.v) \div 4)).ok
           THEN Err("NotCompatible", r.pos + 8 + 4 * (as_usize(d.v) \div 4))
           ELSE Abort(r.pos + 8 + 4 * (as_usize(d.v) \div 4))
      ELSE Ok(r.pos + 8 + 4 * (as_usize(d.v) \div 4))
    : d \in {checked_sub(length, 8, build)}} : TRUE

\* ImageHeaderBox::decode: 4 + 4 + 2 + 1 + 1 + 1 + 1 bytes
ImageHeaderBox_decode(r) == read_exact(r, 14)

\* ImageHeaderBox::components_num of the box that starts at the stream position
components_num(r) == as_usize(from_be_bytes(peek(at(r, r.pos + 8), 2)))

\* EnumeratedColourSpaces::decode
EnumeratedColourSpaces_decode(r) ==
  IF read_exact(r, 4).res # "ok" THEN read_exact(r, 4)
  ELSE IF peek(r, 4) = ENUMERATED_COLOUR_SPACE_CIELAB THEN read_exact(at(r, r.pos + 4), 28)
  ELSE IF peek(r, 4) = ENUMERATED_COLOUR_SPACE_CIEJAB THEN read_exact(at(r, r.pos + 4), 24)
  ELSE Ok(r.pos + 4)

\* vec![0; length as usize - k] and read_exact into it
read_rest(r, length, k, build, memory) ==
  CHOOSE out \in {IF d.ok THEN read_vec(r, d.v, memory) ELSE Abort(r.pos)
                  : d \in {checked_sub(length, k, build)}} : TRUE

\* ColourSpecificationBox::decode
ColourSpecificationBox_decode(r, length, build, memory) ==
  IF read_exact(r, 3).res # "ok" THEN read_exact(r, 3)
  ELSE CHOOSE out \in {
      CASE method = 1 -> EnumeratedColourSpaces_decode(at(r, r.pos + 3))
        [] method \in {2, 3} -> read_rest(at(r, r.pos + 3), length, 3, build, memory)
        [] method = 4 ->
             IF read_rest(at(r, r.pos + 3), length, 16, build, memory).res \in {"panic", "abort"}
             THEN read_rest(at(r, r.pos + 3), length, 16, build, memory)
             ELSE IF read_exact(at(r, r.pos + 3), 16).res # "ok"
             THEN read_exact(at(r, r.pos + 3), 16)
             ELSE read_rest(at(r, r.pos + 19), length, 16, build, memory)
        [] method = 5 -> read_exact(at(r, r.pos + 3), 7)
        [] OTHER -> Ok(r.pos + 3)
    : method \in {r.data[r.pos + 1]}} : TRUE

\* BitsPerComponentBox::decode: one byte for each component
BitsPerComponentBox_decode(r, n) == read_exact(r, n)

\* BitDepth::new(byte).num_bytes()
num_bytes(byte) == ((byte % 128) + 1 + 7) \div 8

\* PaletteBox::decode, the first entry: columns i..columns-1, the bit depths at `depths`
RECURSIVE palette_entry(_, _, _, _)
palette_entry(r, depths, columns, i) ==
  IF i >= columns THEN Ok(r.pos)
  ELSE CHOOSE out \in {
      IF nb \notin {1, 2} THEN Abort(r.pos)
      ELSE IF read_exact(r, nb).res # "ok" THEN read_exact(r, nb)
      ELSE palette_entry(at(r, r.pos + nb), depths, columns, i + 1)
    : nb \in {num_bytes(r.data[depths + i + 1])}} : TRUE

\* PaletteBox::decode
PaletteBox_decode(r) ==
  IF read_exact(r, 3).res # "ok" THEN read_exact(r, 3)
  ELSE CHOOSE out \in {
      IF read_exact(at(r, r.pos + 3), columns).res # "ok"
      THEN read_exact(at(r, r.pos + 3), columns)
      ELSE IF num_entries = 0 THEN Ok(r.pos + 3 + columns)
      ELSE CHOOSE o2 \in {
          IF first.res # "ok" THEN first
          ELSE read_exact(at(r, first.pos),
                          (num_entries - 1) * (first.pos - (r.pos + 3 + columns)))
        : first \in {palette_entry(at(r, r.pos + 3 + columns), r.pos + 3, columns, 0)}} : TRUE
    : num_entries \in {as_usize(from_be_bytes(peek(r, 2)))},
      columns \in {r.data[r.pos + 3]}} : TRUE

\* ComponentMappingBox::decode: 4 bytes while index < length
ComponentMappingBox_decode(r, length) ==
  IF as_usize(length) = Huge THEN Err("UnexpectedEof", Len(r.data))
  ELSE read_exact(r, 4 * ((as_usize(length) + 3) \div 4))

\* ChannelTypes::new: `2u16.pow(16) - 2` is evaluated for a channel type of 3
\* or more; a debug build panics on the overflow of the power, a release
\* build wraps it to 65534
ChannelTypes_new(channel_type, build) ==
  IF channel_type = 0 THEN Computed("ColourImageData")
  ELSE IF channel_type = 1 THEN Computed("Opacity")
  ELSE IF channel_type = 2 THEN Computed("PremultipliedOpacity")
  ELSE IF build = "debug" THEN Panicked
  ELSE IF channel_type <= ((Pow2(16) % Pow2(16)) - 2) % Pow2(16) THEN Computed("Reserved")
  ELSE Computed("Unspecified")

\* ChannelDefinitionBox::decode, the loop: 6 bytes for each of the `size`
\* channels left; the debug! of the channel calls ChannelTypes::new when a
\* logger that enables it is installed
RECURSIVE ChannelDefinitionBox_loop(_, _, _, _)
ChannelDefinitionBox_loop(r, size, build, logging) ==
  IF size = 0 THEN Ok(r.pos)
  ELSE IF read_exact(r, 6).res # "ok" THEN read_exact(r, 6)
  ELSE IF logging
          /\ ~ChannelTypes_new(as_usize(from_be_bytes(peek(at(r, r.pos + 2), 2))), build).ok
  THEN Abort(r.pos + 6)
  ELSE ChannelDefinitionBox_loop(at(r, r.pos + 6), size - 1, build, logging)

\* ChannelDefinitionBox::decode: a count and the channels
ChannelDefinitionBox_decode(r, build, logging) ==
  IF read_exact(r, 2).res # "ok" THEN read_exact(r, 2)
  ELSE ChannelDefinitionBox_loop(at(r, r.pos + 2), as_usize(from_be_bytes(peek(r, 2))),
                                 build, logging)

\* ResolutionSuperBox::decode: s is <<capture, display>>, the boxes already held
RECURSIVE ResolutionSuperBox_loop(_, _, _)
ResolutionSuperBox_loop(r, s, build) ==
  CHOOSE out \in {
      IF h.res # "ok" THEN [res |-> h.res, err |-> h.err, pos |-> h.pos]
      ELSE IF BoxTypes_new(h.box_type) \in {"CaptureResolution", "DefaultDisplayResolution"}
      THEN CHOOSE o2 \in {
               IF s[k] THEN Err("BoxUnexpected", h.pos)
               ELSE IF read_exact(at(r, h.pos), 10).res # "ok" THEN read_exact(at(r, h.pos), 10)
               ELSE ResolutionSuperBox_loop(at(r, h.pos + 10), [s EXCEPT ![k] = TRUE], build)
             : k \in {IF BoxTypes_new(h.box_type) = "CaptureResolution" THEN 1 ELSE 2}} : TRUE
      ELSE IF ~s[1] /\ ~s[2] THEN Err("BoxMalformed", h.pos - h.header_length)
      ELSE Ok(h.pos - h.header_length)
    : h \in {decode_box_header(r, build)}} : TRUE

ResolutionSuperBox_decode(r, build) == ResolutionSuperBox_loop(r, <<FALSE, FALSE>>, build)

\* the outcome of HeaderSuperBox::decode: the Colour Specification boxes held
\* (their number), the child boxes met by the loop and what ended the loop
HeaderOutcome(o, h, stop) ==
  [res |-> o.res, err |-> o.err, pos |-> o.pos,
   colr |-> h.colr, met |-> h.met, stop |-> stop]

\* the child boxes of which HeaderSuperBox holds at most one
SingleChildren ==
  {"BitsPerComponent", "Palette", "ComponentMapping", "ChannelDefinition", "Resolution"}

\* the decode of one child box of the JP2 Header superbox
child_decode(type, r, length, h, build, memory, logging) ==
  CASE type = "ColourSpecification" -> ColourSpecificationBox_decode(r, length, build, memory)
    [] type = "BitsPerComponent" -> BitsPerComponentBox_decode(r, h.components_num)
    [] type = "Palette" -> PaletteBox_decode(r)
    [] type = "ComponentMapping" -> ComponentMappingBox_decode(r, length)
    [] type = "ChannelDefinition" -> ChannelDefinitionBox_decode(r, build, logging)
    [] type = "Resolution" -> ResolutionSuperBox_decode(r, build)

\* HeaderSuperBox::decode, the loop over the boxes after the Image Header box
RECURSIVE HeaderSuperBox_loop(_, _, _, _, _)
HeaderSuperBox_loop(r, h, build, memory, logging) ==
  CHOOSE out \in {
      IF b.res # "ok" THEN HeaderOutcome(b, h, b.res)
      ELSE CHOOSE o2 \in {
          CASE type = "ImageHeader" ->
                 HeaderSuperBox_loop(at(r, b.pos), [h EXCEPT !.met = Append(@, type)], build,
                                     memory, logging)
            [] type = "ColourSpecification" \/ type \in SingleChildren ->
                 IF type \in SingleChildren /\ type \in h.held
                 THEN HeaderOutcome(Err("BoxDuplicate", b.pos), h, "err")
                 ELSE CHOOSE o3 \in {
                     IF d.res # "ok" THEN HeaderOutcome(d, h, d.res)
                     ELSE HeaderSuperBox_loop(at(r, d.pos),
                            [h EXCEPT !.met = Append(@, type),
                                      !.held = @ \cup {type},
                                      !.colr = IF type = "ColourSpecification"
                                               THEN @ + 1 ELSE @], build, memory, logging)
                   : d \in {child_decode(type, at(r, b.pos), b.box_length, h, build,
                                         memory, logging)}} : TRUE
            [] type = "Unknown" ->
                 IF h.colr = 0
                 THEN HeaderOutcome(Err("BoxMalformed", b.pos), h, "Unknown")
                 ELSE HeaderOutcome(Ok(b.pos), h, "Unknown")
            [] OTHER ->
                 IF h.colr = 0
                 THEN HeaderOutcome(Err("BoxMalformed", b.pos - b.header_length), h, type)
                 ELSE HeaderOutcome(Ok(b.pos - b.header_length), h, type)
        : type \in {BoxTypes_new(b.box_type)}} : TRUE
    : b \in {decode_box_header(r, build)}} : TRUE

\* HeaderSuperBox::decode
HeaderSuperBox_decode(r, build, memory, logging) ==
  CHOOSE out \in {
      IF b.res # "ok" THEN HeaderOutcome(b, [colr |-> 0, met |-> <<>>], b.res)
      ELSE IF b.box_type # BOX_TYPE_IMAGE_HEADER
      THEN HeaderOutcome(Err("BoxUnexpected", b.pos), [colr |-> 0, met |-> <<>>], "err")
      ELSE IF ImageHeaderBox_decode(at(r, b.pos)).res # "ok"
      THEN HeaderOutcome(ImageHeaderBox_decode(at(r, b.pos)), [colr |-> 0, met |-> <<>>], "err")
      ELSE HeaderSuperBox_loop(at(r, b.pos + 14),
             [components_num |-> components_num(at(r, b.pos)), colr |-> 0,
              held |-> {}, met |-> <<>>], build, memory, logging)
    : b \in {decode_box_header(r, build)}} : TRUE

\* the decode of one top-level box after the File Type box, other than the
\* JP2 Header superbox and the Contiguous Codestream box
box_decode(type, r, length, build, memory) ==
  CASE type \in {"IntellectualProperty", "Xml"} -> read_vec(r, length, memory)
    [] type = "Uuid" ->
         IF read_exact(r, 16).res # "ok" THEN read_exact(r, 16)
         ELSE read_rest(at(r, r.pos + 16), length, 16, build, memory)
    [] type = "UUIDInfo" -> Ok(r.pos)
    [] type = "UUIDList" ->
         IF read_exact(r, 2).res # "ok" THEN read_exact(r, 2)
         ELSE read_exact(at(r, r.pos + 2), 16 * as_usize(from_be_bytes(peek(r, 2))))
    [] type = "DataEntryURL" ->
         IF ~checked_sub(length, 4, build).ok THEN Abort(r.pos)
         ELSE IF allocate(checked_sub(length, 4, build).v, memory) = "panic" THEN Abort(r.pos)
         ELSE IF allocate(checked_sub(length, 4, build).v, memory) = "abort"
         THEN AllocationFailure(r.pos)
         ELSE IF read_exact(r, 4).res # "ok" THEN read_exact(r, 4)
         ELSE read_exact(at(r, r.pos + 4), as_usize(checked_sub(length, 4, build).v))

\* ContiguousCodestreamBox::decode: a seek to the end of the file (and the
\* length from the offset of the box, the stream position, to the end), or
\* a seek of `self.length as i64` from the stream position
ContiguousCodestreamBox_decode(r, length, build) ==
  IF length = u64(0)
  THEN IF r.pos > Len(r.data) /\ build = "debug"
       THEN [res |-> "panic", err |-> "", pos |-> Len(r.data), far |-> u64(Len(r.data))]
       ELSE Sought(u64(Len(r.data)))
  ELSE seek_current(r, length)

(***************************************************************************)
(* The files decode_jp2 is run on.  A box is [type, content, lbox]; a     *)
(* file is the encoding of a sequence of boxes, each with an LBox of 8     *)
(* plus the length of its content, but for the boxes whose LBox is a       *)
(* reserved value or 1 (with an XLBox at the head of the content).         *)
(***************************************************************************)
MaxBoxes == 3

BoxOf(type, content) == [type |-> type, content |-> content, lbox |-> 8 + Len(content)]

\* a box whose LBox field holds lbox, whatever the bytes that follow it
BoxWithLength(lbox, type, content) == [type |-> type, content |-> content, lbox |-> lbox]

length_bytes(n) == <<0, 0, n \div 256, n % 256>>

EncodeBox(box) == length_bytes(box.lbox) \o box.type \o box.content

RECURSIVE EncodeBoxes(_)
EncodeBoxes(boxes) ==
  IF boxes = <<>> THEN <<>> ELSE EncodeBox(Head(boxes)) \o EncodeBoxes(Tail(boxes))

\* a box type that BoxTypes::new does not know ('free')
UnknownType == <<102, 114, 101, 101>>
\* a brand that is neither 'jp2 ' nor 'jpx ' ('mjp2')
OtherBrand == <<109, 106, 112, 50>>
MinorVersion == <<0, 0, 0, 0>>
\* an entry of a compatibility list that is not UTF-8
NotUtf8 == <<255, 255, 255, 255>>

\* 1 x 1 samples, 1 component of 8 bits, compression type 7
ImageHeader == BoxOf(BOX_TYPE_IMAGE_HEADER, <<0, 0, 0, 1, 0, 0, 0, 1, 0, 1, 7, 7, 0, 0>>)
\* the enumerated method, sRGB
ColourSpecification ==
  BoxOf(BOX_TYPE_COLOUR_SPECIFICATION, <<1, 0, 0>> \o ENUMERATED_COLOUR_SPACE_SRGB)
\* one channel, of index 5, type 0x0A0F and association 0x1419
ChannelDefinition == BoxOf(BOX_TYPE_CHANNEL_DEFINITION, <<0, 1, 0, 5, 10, 15, 20, 25>>)
UnknownEmpty == BoxOf(UnknownType, <<>>)
UnknownFull == BoxOf(UnknownType, <<1, 2, 3, 4>>)

SuperBox(type, children) == BoxOf(type, EncodeBoxes(children))

Signature == BoxOf(BOX_TYPE_SIGNATURE, SIGNATURE_MAGIC)
FileType == BoxOf(BOX_TYPE_FILE_TYPE, BRAND_JP2 \o MinorVersion \o BRAND_JP2)
Header == SuperBox(BOX_TYPE_HEADER, <<ImageHeader, ColourSpecification>>)
Codestream == BoxOf(BOX_TYPE_CONTIGUOUS_CODESTREAM, <<255, 79, 255, 217>>)
Xml == BoxOf(BOX_TYPE_XML, <<60, 97, 47, 62>>)
Uuid == BoxOf(BOX_TYPE_UUID, [k \in 1..16 |-> k] \o <<1>>)
\* an LBox of 4, one of the reserved values 2..7
ReservedLength == BoxWithLength(4, BOX_TYPE_XML, <<>>)
\* an LBox of 1 and an XLBox of 20: the 16 bytes of the header and 4 of content
ExtendedLength ==
  BoxWithLength(1, BOX_TYPE_XML, <<0, 0, 0, 0, 0, 0, 0, 20>> \o <<60, 97, 47, 62>>)
\* an LBox of 1 and an XLBox of 8, less than the 16 bytes of the header
ShortExtendedLength == BoxWithLength(1, BOX_TYPE_XML, <<0, 0, 0, 0, 0, 0, 0, 8>>)
\* an LBox of 1 and an XLBox of 2^40
VastLength == BoxWithLength(1, BOX_TYPE_XML, <<0, 0, 1, 0, 0, 0, 0, 0>>)
\* an LBox of 1 and an XLBox of 2^30 + 15: a content of 2^30 - 1 bytes
BoundaryLength == BoxWithLength(1, BOX_TYPE_XML, <<0, 0, 0, 0, 64, 0, 0, 15>>)
\* a Contiguous Codestream box with an XLBox of 8
ShortCodestream ==
  BoxWithLength(1, BOX_TYPE_CONTIGUOUS_CODESTREAM, <<0, 0, 0, 0, 0, 0, 0, 8>>)
\* a Contiguous Codestream box with an XLBox of 2^40
FarCodestream ==
  BoxWithLength(1, BOX_TYPE_CONTIGUOUS_CODESTREAM, <<0, 0, 1, 0, 0, 0, 0, 0>>)
\* a Contiguous Codestream box with an XLBox of 2^63 + 16
BeyondCodestream ==
  BoxWithLength(1, BOX_TYPE_CONTIGUOUS_CODESTREAM, <<128, 0, 0, 0, 0, 0, 0, 16>>)

FirstBoxes ==
  { Signature,
    BoxOf(BOX_TYPE_SIGNATURE, <<13, 10, 26, 10>>),
    FileType }

SecondBoxes ==
  { FileType,
    BoxOf(BOX_TYPE_FILE_TYPE, BRAND_JP2 \o MinorVersion \o BRAND_JPX \o BRAND_JP2),
    BoxOf(BOX_TYPE_FILE_TYPE, BRAND_JPX \o MinorVersion \o BRAND_JPX \o BRAND_JP2),
    BoxOf(BOX_TYPE_FILE_TYPE, OtherBrand \o MinorVersion \o BRAND_JP2),
    BoxOf(BOX_TYPE_FILE_TYPE, BRAND_JP2 \o MinorVersion \o BRAND_JPX),
    BoxOf(BOX_TYPE_FILE_TYPE, BRAND_JP2 \o MinorVersion \o NotUtf8),
    BoxOf(BOX_TYPE_FILE_TYPE, BRAND_JP2 \o MinorVersion),
    BoxOf(BOX_TYPE_FILE_TYPE, BRAND_JP2),
    Xml, Header }

LaterBoxes ==
  { Header,
    SuperBox(BOX_TYPE_HEADER, <<ImageHeader>>),
    SuperBox(BOX_TYPE_HEADER, <<ImageHeader, UnknownEmpty, ColourSpecification>>),
    SuperBox(BOX_TYPE_HEADER, <<ImageHeader, ColourSpecification, UnknownFull>>),
    SuperBox(BOX_TYPE_HEADER, <<ImageHeader, ColourSpecification, ChannelDefinition>>),
    Codestream, Xml, Uuid, UnknownEmpty,
    ReservedLength, ExtendedLength, ShortExtendedLength,
    VastLength, BoundaryLength, ShortCodestream, FarCodestream, BeyondCodestream }

\* the most bytes an allocation is granted: 2^33 on one machine, 2^41 on another
Memories == {<<0, 2, 0, 0>>, <<0, Pow2(9), 0, 0>>}

SeqsUpTo(S, n) == UNION {[1..k -> S] : k \in 0..n}

Files ==
  {<<Signature, FileType>> \o rest : rest \in SeqsUpTo(LaterBoxes, MaxBoxes)}
    \cup {<<first, second>> \o rest :
            first \in FirstBoxes, second \in SecondBoxes,
            rest \in {<<>>, <<Header, Codestream>>}}
    \cup {<<>>, <<Signature>>}

(***************************************************************************)
(* decode_jp2 as a state machine: the Signature box, the File Type box,    *)
(* then one step for each turn of the loop over the boxes that follow.     *)
(***************************************************************************)
NoHeader == [some |-> FALSE, colr |-> 0, met |-> <<>>, stop |-> ""]
NoBox == [type |-> "", held |-> FALSE, offset |-> 0, length |-> u64(0), stop |-> ""]

reader(j) == [data |-> j.data, pos |-> j.pos, far |-> j.far]

\* decode_jp2 returns (Ok or Err) or panics
Return(j, o) == [j EXCEPT !.phase = "done", !.res = o.res, !.err = o.err, !.pos = o.pos]

\* the guard of the Contiguous Codestream box left out
is_never_none(header_box_option) == FALSE

\* header_box_option.is_none()
is_none(header_box_option) == ~header_box_option.some

\* the first box: its header and SignatureBox::decode
decode_signature(j) ==
  CHOOSE out \in {
      IF b.res # "ok" THEN Return(j, b)
      ELSE IF b.box_type # BOX_TYPE_SIGNATURE THEN Return(j, Err("BoxUnexpected", b.pos))
      ELSE CHOOSE o2 \in {
          IF d.res # "ok" THEN Return(j, d)
          ELSE [j EXCEPT !.phase = "signature", !.pos = d.pos]
        : d \in {SignatureBox_decode(at(reader(j), b.pos))}} : TRUE
    : b \in {decode_box_header(reader(j), j.build)}} : TRUE

\* the second box: its header and FileTypeBox::decode
decode_file_type(j) ==
  CHOOSE out \in {
      IF b.res # "ok" THEN Return(j, b)
      ELSE IF b.box_type # BOX_TYPE_FILE_TYPE THEN Return(j, Err("BoxUnexpected", b.pos))
      ELSE CHOOSE o2 \in {
          IF d.res # "ok" THEN Return(j, d)
          ELSE [j EXCEPT !.phase = "boxes", !.pos = d.pos]
        : d \in {FileTypeBox_decode(at(reader(j), b.pos), b.box_length, j.build)}} : TRUE
    : b \in {decode_box_header(reader(j), j.build)}} : TRUE

\* one turn of the loop of decode_jp2 on the box with header b of type `type`;
\* `last` keeps the box met, whether a header was held before it and, for a
\* JP2 Header superbox, what ended the loop over its boxes
decode_box(j0, b, type) ==
  CHOOSE out \in {
      CASE type = "Header" ->
             CHOOSE o2 \in {
                 IF d.res # "ok" THEN Return([j EXCEPT !.last.stop = d.stop], d)
                 ELSE [j EXCEPT !.pos = d.pos, !.last.stop = d.stop,
                                !.header = [some |-> TRUE, colr |-> d.colr,
                                            met |-> d.met, stop |-> d.stop]]
               : d \in {HeaderSuperBox_decode(at(reader(j), b.pos), j.build, j.memory,
                                                j.logging)}} : TRUE
        [] type \in {"IntellectualProperty", "Xml", "Uuid", "UUIDInfo",
                     "UUIDList", "DataEntryURL"} ->
             CHOOSE o2 \in {
                 IF d.res # "ok" THEN Return(j, d)
                 ELSE IF type \in {"UUIDList", "DataEntryURL"} /\ ~j.current_uuid_info_box
                 THEN Return(j, Err("BoxMissing", d.pos))
                 ELSE [j EXCEPT !.pos = d.pos,
                                !.current_uuid_info_box = @ \/ type = "UUIDInfo"]
               : d \in {box_decode(type, at(reader(j), b.pos), b.box_length, j.build,
                                     j.memory)}} : TRUE
        [] type = "ContiguousCodestream" ->
             IF is_none(j.header) THEN Return(j, Err("BoxUnexpected", b.pos))
             ELSE CHOOSE o2 \in {
                 IF d.res # "ok" THEN Return(j, d)
                 ELSE [j EXCEPT !.pos = d.pos, !.far = d.far,
                                !.contiguous_codestreams = @ + 1]
               : d \in {ContiguousCodestreamBox_decode(at(reader(j), b.pos), b.box_length,
                                                       j.build)}} : TRUE
        [] OTHER -> Return(j, Abort(b.pos))
    : j \in {[j0 EXCEPT !.met = Append(@, type),
                        !.last = [type |-> type, held |-> ~is_none(j0.header),
                                  offset |-> b.pos, length |-> b.box_length,
                                  stop |-> ""]]}} : TRUE

\* one turn of the loop: the end of the file ends it, and decode_jp2 returns Ok
decode_next(j) ==
  CHOOSE out \in {
      IF b.res = "err" THEN Return(j, Ok(b.pos))
      ELSE IF b.res = "panic" THEN Return(j, b)
      ELSE decode_box(j, b, BoxTypes_new(b.box_type))
    : b \in {decode_box_header(reader(j), j.build)}} : TRUE

InitJP2 ==
  /\ ttKind = "zero"
  /\ tt = TagTreeDecoderNew(1, 1)
  /\ br = BitReaderNew(<<0>>)
  /\ ttDriver = "free"
  /\ ttArray = << >>
  /\ ttLog = << >>
  /\ ttLast = NoCall
  /\ cb = CodeBlockDecoderNew(1, 4, "LH", 7, 10)
  /\ coder = [kind |-> "free", exp |-> << >>, index |-> 0]
  /\ cbPc = [phase |-> "new", build |-> "debug", zbp |-> 7, pass_number |-> 0,
             state |-> "CleanUp", by |-> 0, x |-> 0, y |-> 0,
             site |-> "none", cx |-> 0, a |-> 0, why |-> ""]
  /\ cbLast = NoDecision
  /\ dwt = NoTransform
  /\ \E boxes \in Files, build \in Builds, memory \in Memories, logging \in BOOLEAN :
       jp2 = [phase |-> "start", build |-> build, memory |-> memory,
              logging |-> logging, boxes |-> boxes,
              data |-> EncodeBoxes(boxes), pos |-> 0, far |-> u64(0),
              res |-> "", err |-> "",
              header |-> NoHeader, contiguous_codestreams |-> 0,
              current_uuid_info_box |-> FALSE, met |-> <<>>, last |-> NoBox]

DecodeSignature ==
  /\ jp2.phase = "start"
  /\ jp2' = decode_signature(jp2)
  /\ UNCHANGED <<ttVars, cbVars, dwt>>

DecodeFileType ==
  /\ jp2.phase = "signature"
  /\ jp2' = decode_file_type(jp2)
  /\ UNCHANGED <<ttVars, cbVars, dwt>>

DecodeBox ==
  /\ jp2.phase = "boxes"
  /\ jp2' = decode_next(jp2)
  /\ UNCHANGED <<ttVars, cbVars, dwt>>

NextJP2 == DecodeSignature \/ DecodeFileType \/ DecodeBox

SpecJP2 == InitJP2 /\ [][NextJP2]_vars

(***************************************************************************)
(* Properties of decode_jp2                                                *)
(***************************************************************************)
\* the File Type box the format asks for: brand 'jp2 ' and 'jp2 ' among the
\* entries of the compatibility list
GoodFileType(box) ==
  /\ box.type = BOX_TYPE_FILE_TYPE
  /\ Len(box.content) >= 8
  /\ SubSeq(box.content, 1, 4) = BRAND_JP2
  /\ \E k \in 1..((Len(box.content) - 8) \div 4) :
       SubSeq(box.content, 4 * k + 5, 4 * k + 8) = BRAND_JP2

\* C16: decode_jp2 returns an error unless the second box of the file is a
\* File Type box whose brand is 'jp2 ' and whose compatibility list contains
\* 'jp2 ': once decode_jp2 is over on a file whose second box is missing or
\* is anything else, its result is an Err.
C16_FileTypeIsChecked ==
  jp2.phase = "done" /\ (Len(jp2.boxes) < 2 \/ ~GoodFileType(jp2.boxes[2])) =>
    jp2.res = "err"

\* every `later` of the sequence has a `first` somewhere before it
Precedes(types, first, later) ==
  \A i \in 1..Len(types) :
    types[i] = later => \E k \in 1..(i - 1) : types[k] = first

BoxTypes_of(boxes) == [k \in 1..Len(boxes) |-> BoxTypes_new(boxes[k].type)]

C17_Accepted ==
  jp2.phase = "done" /\ jp2.res = "ok" /\ jp2.contiguous_codestreams >= 2

\* a file is accepted whose last box is a Contiguous Codestream box with an
\* extended length of 2^40: the seek takes the stream beyond the file
C17_SoughtBeyond ==
  /\ jp2.phase = "done" /\ jp2.res = "ok" /\ jp2.contiguous_codestreams >= 1
  /\ jp2.boxes[Len(jp2.boxes)] = FarCodestream /\ lt(<<0, 255, 65535, 65520>>, jp2.far)

\* C18: decode_jp2 accepts at most one top-level JP2 Header superbox: when the
\* loop meets a JP2 Header superbox while one is already held, decode_jp2
\* returns an error, and the later header does not replace the earlier one.
C18_SingleHeader ==
  jp2.phase # "none" /\ jp2.last.type = "Header" /\ jp2.last.held =>
    jp2.phase = "done" /\ jp2.res = "err"

\* C19: whenever decode_jp2 returns successfully, the parsed file contains a
\* JP2 Header superbox that holds at least one Colour Specification box.
C19_HeaderHasColour ==
  jp2.phase = "done" /\ jp2.res = "ok" =>
    jp2.header.some /\ jp2.header.colr >= 1

\* C20: a box of unknown type never aborts decoding: when the loop of
\* decode_jp2 meets one, decode_jp2 neither panics nor returns, and goes on at
\* the end of that box; the loop over the boxes of a JP2 Header superbox is
\* never ended by a box of unknown type.
C20_UnknownBoxesAreIgnored ==
  jp2.phase # "none" =>
    /\ jp2.last.type = "Unknown" =>
         jp2.phase = "boxes" /\ jp2.pos = jp2.last.offset + as_usize(jp2.last.length)
    /\ jp2.last.type = "Header" => jp2.last.stop # "Unknown"

(***************************************************************************)
(* An inclusion tree read with non-decreasing bounds, as a packet header   *)
(* reads it: layer after layer.                                            *)
(***************************************************************************)
InitIncl == InitTT /\ ttKind = "incl"

\* a call of InclusionTagTree::read_for_inclusion whose bound is not below
\* the bound of the call before it
ReadForInclusionInOrder(leaf, bound) ==
  /\ ttLast.bound <= bound
  /\ ReadForInclusion(leaf, bound)

NextIncl ==
  \/ \E leaf \in Leaves(tt), bound \in 0..MaxBound : ReadForInclusionInOrder(leaf, bound)
  \/ PacketVisit

SpecIncl == InitIncl /\ [][NextIncl]_vars

\* the node that decides a leaf: the leaf itself, or the nearest node above it
\* that is not SeeParent
RECURSIVE Decider(_, _, _)
Decider(t, dim_idx, level) ==
  IF node(t, dim_idx, level).t # "SeeParent" \/ level = 0 THEN node(t, dim_idx, level)
  ELSE Decider(t, I2(dim_idx.x \div 2, dim_idx.y \div 2), level - 1)

\* C21: for any call sequence whose bounds are non-decreasing,
\* read_for_inclusion never panics (no assertion fails), and when it succeeds
\* it returns true exactly when the leaf then holds Value(v) with v <= bound,
\* and false exactly when the node that decides the leaf (the leaf or the
\* nearest ancestor that is not SeeParent) then holds AtLeast(v) with
\* v > bound.
C21_InclusionAnswer ==
  ttLast.op = "read_for_inclusion" =>
    /\ ttLast.res \in {"ok", "err"}
    /\ ttLast.res = "ok" =>
         /\ ttLast.included <=> (LeafNode.t = "Value" /\ LeafNode.v <= ttLast.bound)
         /\ ~ttLast.included <=>
              \E d \in {Decider(tt, ttLast.leaf, tt.max_depth)} :
                d.t = "AtLeast" /\ d.v > ttLast.bound

\* a leaf was answered "not included" by an ancestor, after an earlier call
\* with a smaller bound
C21_Witness ==
  /\ ttLast.op = "read_for_inclusion" /\ ttLast.res = "ok" /\ ~ttLast.included
  /\ ttLast.bound >= 1 /\ LeafNode.t = "SeeParent" /\ bits_read(br) >= 2
  /\ ttDriver = "free"

\* a leaf was answered "included" at the bound its value equals
C21_Included ==
  /\ ttLast.op = "read_for_inclusion" /\ ttLast.res = "ok" /\ ttLast.included
  /\ LeafNode.v = ttLast.bound /\ ttLast.bound >= 1 /\ ttLast.before.t = "AtLeast"

(***************************************************************************)
(* The order of the coding passes and their bit-planes.                    *)
(***************************************************************************)
\* the configuration the code block at hand was constructed from
ConfigOfBlock ==
  CHOOSE cfg \in CBConfigs :
    /\ cfg.width = cb.width /\ cfg.height = cb.height /\ cfg.subband = cb.subband
    /\ cfg.no_passes = cb.no_passes /\ cfg.zbp = cbPc.zbp /\ cfg.kind = coder.kind

\* the most-significant non-zero bit-plane: mb - 1 - zero bit-planes
TopPlane == ConfigOfBlock.mb - 1 - cbPc.zbp

\* the kind of pass k in the fixed order
PassKind(k) ==
  IF k % 3 = 0 THEN "CleanUp"
  ELSE IF k % 3 = 1 THEN "SignificancePropagation"
  ELSE "MagnitudeRefinement"

\* the bit-plane of pass k: pass 0 on the top plane, every triple
\* (significance, refinement, cleanup) one plane below the one before
PassPlane(k) == TopPlane - ((k + 2) \div 3)

\* C22: the passes of one code block run in a fixed order: pass 0 is a
\* cleanup on bit-plane mb - 1 - zero bit-planes, a later pass k is a
\* significance propagation when k mod 3 = 1, a magnitude refinement when
\* k mod 3 = 2 and a cleanup when k mod 3 = 0, and each such triple works on
\* the bit-plane one below the triple before it: no pass works on any other
\* bit-plane, and a pass with no bit-plane left below is not run
C22_PassOrder ==
  /\ cbPc.phase \in {"wait", "done"} => cbPc.state = PassKind(cbPc.pass_number)
  /\ cbPc.phase = "wait" =>
       /\ PassPlane(cbPc.pass_number) >= 0
       /\ cb.bit_plane_shift = PassPlane(cbPc.pass_number)

\* what decode does keep: the kinds of the passes follow the fixed order, and
\* as long as there is a bit-plane below, each triple works one bit-plane
\* below the triple before it
C22_WhilePlanesRemain ==
  /\ cbPc.phase \in {"wait", "done"} => cbPc.state = PassKind(cbPc.pass_number)
  /\ (cbPc.phase = "wait" /\ PassPlane(cbPc.pass_number) >= 0) =>
       cb.bit_plane_shift = PassPlane(cbPc.pass_number)

\* a release build awaits a decision of pass 4 of a block with two non-zero
\* bit-planes, on bit-plane 255
C22_PassBelowLastPlane ==
  /\ cbPc.build = "release" /\ cbPc.phase = "wait" /\ cbPc.pass_number = 4
  /\ TopPlane = 1 /\ cb.bit_plane_shift = 255

\* a decision is awaited in the second significance pass (pass 4), two
\* bit-planes below where the first cleanup started, against free decisions
C22_Witness ==
  /\ cbPc.phase = "wait" /\ coder.kind = "free"
  /\ cbPc.pass_number = 4 /\ cbPc.state = "SignificancePropagation"
  /\ TopPlane = 2 /\ cb.bit_plane_shift = 0

\* a decision is awaited in the second cleanup pass (pass 3)
C22_SecondCleanup ==
  /\ cbPc.phase = "wait" /\ coder.kind = "free"
  /\ cbPc.pass_number = 3 /\ cbPc.state = "CleanUp"
  /\ cb.bit_plane_shift = TopPlane - 1

(***************************************************************************)
(* The run-length branch of the cleanup pass.                              *)
(***************************************************************************)
\* a decision is awaited at one of the two UNIFORM decodes
AwaitsUniform == cbPc.phase = "wait" /\ cbPc.site \in {"uniform_a", "uniform_b"}

\* the two UNIFORM decisions a, b have made coefficient 2a + b of the column
\* strip significant, and nothing else
UniformGivesIndex ==
  (cbLast.site = "uniform_b" /\ cbPc.phase # "panic") =>
    cbLast.became = {cb.width * (cbPc.by + 2 * cbPc.a + cbLast.d) + cbPc.x + 1}

\* C23: in a cleanup pass, after the RUN_LEN decision of a column strip in run
\* mode, a decision of 0 skips the column with no further decision for it,
\* and a decision of 1 is followed by exactly two UNIFORM decisions, which
\* give the index 0..3 of the first newly significant coefficient of the strip
C23_RunLengthDecision ==
  /\ (cbLast.site = "run_len" /\ cbLast.d = 0) =>
       ~AwaitsUniform /\ cbLast.became = {}
  /\ (cbLast.site = "run_len" /\ cbLast.d = 1) =>
       cbPc.phase = "wait" /\ cbPc.site = "uniform_a"
  /\ cbLast.site = "uniform_a" => cbPc.phase = "wait" /\ cbPc.site = "uniform_b"
  /\ UniformGivesIndex

\* what pass_cleanup does with the RUN_LEN decision: 1 skips the column,
\* 0 is followed by the two UNIFORM decisions
C23_AsCoded ==
  /\ (cbLast.site = "run_len" /\ cbLast.d = 1) =>
       ~AwaitsUniform /\ cbLast.became = {}
  /\ (cbLast.site = "run_len" /\ cbLast.d = 0) =>
       cbPc.phase = "wait" /\ cbPc.site = "uniform_a"
  /\ cbLast.site = "uniform_a" => cbPc.phase = "wait" /\ cbPc.site = "uniform_b"
  /\ UniformGivesIndex

(***************************************************************************)
(* When a cleanup pass takes the run-length branch.                        *)
(***************************************************************************)
\* no neighbour of the coefficient at idx is significant
NoSignificantNeighbour(c, idx) ==
  \E n \in {NeighbourCounts(c, idx)} : n.h = 0 /\ n.v = 0 /\ n.d = 0

\* the column strip (by, x) is in run mode: it has four coefficients, all
\* insignificant, and none of them has a significant neighbour
RunMode(c, by, x) ==
  /\ by + 4 <= c.height
  /\ \A y \in by..(by + 3) :
       ~is_significant(c, CoeffIndex(y, x)) /\ NoSignificantNeighbour(c, CoeffIndex(y, x))

\* C24: a cleanup pass decodes a RUN_LEN decision for a column strip only when
\* all four coefficients of the strip are insignificant and none of the four
\* has a significant neighbour
C24_RunModeCondition ==
  (cbPc.phase = "wait" /\ cbPc.site = "run_len") => RunMode(cb, cbPc.by, cbPc.x)

\* what pass_cleanup tests before the RUN_LEN decision: the strip has four
\* coefficients and all four are insignificant
C24_AsCoded ==
  (cbPc.phase = "wait" /\ cbPc.site = "run_len") =>
    /\ cbPc.by + 4 <= cb.height
    /\ \A y \in cbPc.by..(cbPc.by + 3) : ~is_significant(cb, CoeffIndex(y, cbPc.x))

(***************************************************************************)
(* The significance context of every coefficient of the block at hand.     *)
(***************************************************************************)
\* C25: significance-context selection is defined for every orientation (LL,
\* LH, HL, HH) and every neighbour configuration: for every coefficient of a
\* block it returns a context in 0..8, and no decode fails in it
C25_SignificanceContextIsTotal ==
  /\ \A y \in 0..(cb.height - 1), x \in 0..(cb.width - 1) :
       \E sc \in {significance_context(cb, CoeffIndex(y, x))} : sc.ok /\ sc.v \in 0..8
  /\ cbPc.why # "significance context"
  /\ (cbPc.phase = "wait" /\ cbPc.site = "significance") => cbPc.cx \in 0..8

\* in the orientations other than HH the selection is total and in 0..8
C25_ExceptHH ==
  cb.subband # "HH" =>
    /\ \A y \in 0..(cb.height - 1), x \in 0..(cb.width - 1) :
         \E sc \in {significance_context(cb, CoeffIndex(y, x))} : sc.ok /\ sc.v \in 0..8
    /\ cbPc.why # "significance context"

\* the first cleanup pass of an HH block has failed in significance_context
C25_HHFails ==
  cb.subband = "HH" /\ cbPc.phase = "panic" /\ cbPc.why = "significance context"
  /\ cbPc.pass_number = 0

(***************************************************************************)
(* The extension of a signal before one-dimensional filtering.             *)
(***************************************************************************)
\* the extension lengths the filter at hand asks for
ExtensionParams ==
  IF dwt.proc = "sd" THEN get_extension_params_d(dwt.i0, dwt.il)
  ELSE get_extension_params_r(dwt.i0, dwt.il)

\* the extension of the signal at hand; sample i of the range
\* [i0 - i_left, il + i_right) is at position i - (i0 - i_left) + 1
Extended ==
  extend_signal_1d(dwt.s, dwt.i0, dwt.il, ExtensionParams.i_left, ExtensionParams.i_right,
                   dwt.build)

\* C26: a signal on [i0, i1) of length >= 2 is extended at both ends by
\* whole-sample symmetric reflection: extension index i0 - k takes the sample
\* at i0 + k and extension index (i1 - 1) + k takes the sample at
\* (i1 - 1) - k, for every k up to the extension length (and within the
\* signal), so the boundary sample is not repeated
C26_WholeSampleExtension ==
  (dwt.kind = "1d" /\ Len(dwt.s) >= 2) =>
    \E p \in {ExtensionParams}, n \in {Len(dwt.s)} :
      /\ Extended.ok
      /\ Len(Extended.v) = n + p.i_left + p.i_right
      /\ \A k \in 0..(n - 1) : Extended.v[p.i_left + k + 1] = dwt.s[k + 1]
      /\ \A k \in 1..Min(p.i_left, n - 1) : Extended.v[p.i_left - k + 1] = dwt.s[k + 1]
      /\ \A k \in 1..Min(p.i_right, n - 1) : Extended.v[p.i_left + n + k] = dwt.s[n - k]

\* what pse_o does: extension index i0 - k takes the sample at i0 + k - 1 and
\* extension index (i1 - 1) + k the sample at (i1 - 1) - k + 1: the boundary
\* sample is repeated
C26_AsCoded ==
  (dwt.kind = "1d" /\ Len(dwt.s) >= 2) =>
    \E p \in {ExtensionParams}, n \in {Len(dwt.s)} :
      /\ Extended.ok
      /\ Len(Extended.v) = n + p.i_left + p.i_right
      /\ \A k \in 0..(n - 1) : Extended.v[p.i_left + k + 1] = dwt.s[k + 1]
      /\ \A k \in 1..Min(p.i_left, n) : Extended.v[p.i_left - k + 1] = dwt.s[k]
      /\ \A k \in 1..Min(p.i_right, n) : Extended.v[p.i_left + n + k] = dwt.s[n - k + 1]

(***************************************************************************)
(* The order in which the inverse transform takes the levels.              *)
(***************************************************************************)
\* the inverse transform from the coarsest level outward: from the LL of the
\* deepest level N, and for r = N down to 1 the current LL with the HL, LH
\* and HH of level r
FromDeepest(all_subbands, n_levels) ==
  idwt_from(all_subbands[n_levels].ll, all_subbands, n_levels, dwt.build)

\* C27: given the sub-band sequence the forward transform returned, the
\* inverse transform starts from the LL sub-band of the deepest level N and,
\* for r = N down to 1, combines the current LL with the HL, LH and HH of
\* level r into the LL of level r - 1
C27_InverseFromDeepestLL ==
  (dwt.kind = "2d" /\ dwt.pc = "idwt") =>
    dwt.output = FromDeepest(dwt.subbands.v, dwt.n_levels)

\* with one level the LL idwt starts from is the deepest one
C27_OneLevel ==
  (dwt.kind = "2d" /\ dwt.pc = "idwt" /\ dwt.n_levels = 1) =>
    dwt.output = FromDeepest(dwt.subbands.v, dwt.n_levels)

\* a two-level transform whose result is not the one from the deepest LL
C27_Differs ==
  /\ dwt.kind = "2d" /\ dwt.pc = "idwt" /\ dwt.n_levels = 2
  /\ dwt.output.ok /\ FromDeepest(dwt.subbands.v, 2).ok
  /\ dwt.output # FromDeepest(dwt.subbands.v, 2)

(***************************************************************************)
(* How decode_jp2 ends.                                                    *)
(***************************************************************************)
\* C28: decode_jp2 reports every failure as a returned error value: whatever
\* the bytes of the file (any box length field, any extended length, any box
\* type), it returns Ok or Err and never panics
C28_FailuresAreReturned ==
  jp2.phase = "done" => jp2.res \in {"ok", "err"}

\* decode_jp2 has panicked, in a release build, on a box whose length field
\* holds a reserved value
C28_ReservedLengthPanics ==
  /\ jp2.phase = "done" /\ jp2.res = "panic" /\ jp2.build = "release"
  /\ Len(jp2.boxes) = 3 /\ jp2.boxes[3] = ReservedLength

\* decode_jp2 has panicked, in a debug build, on an extended length below 16
C28_ExtendedLengthPanics ==
  /\ jp2.phase = "done" /\ jp2.res = "panic" /\ jp2.build = "debug"
  /\ Len(jp2.boxes) = 3 /\ jp2.boxes[3] = ShortExtendedLength

\* the process has been ended by the allocation for an XML box whose extended
\* length is 2^40, on a machine that grants no more than 2^33 bytes
C28_AllocationAborts ==
  /\ jp2.phase = "done" /\ jp2.res = "abort" /\ jp2.memory = <<0, 2, 0, 0>>
  /\ Len(jp2.boxes) = 3 /\ jp2.boxes[3] = VastLength

\* decode_jp2 has panicked on a File Type box whose compatibility list holds
\* no 'jp2 ' and an entry that is not UTF-8
C28_CompatibilityListPanics ==
  /\ jp2.phase = "done" /\ jp2.res = "panic" /\ Len(jp2.boxes) = 2
  /\ jp2.boxes[2].content = BRAND_JP2 \o MinorVersion \o NotUtf8

\* decode_jp2 has panicked, in a debug build with a logger, on a Channel
\* Definition box with a channel of type 0x0A0F
C28_ChannelTypePanics ==
  /\ jp2.phase = "done" /\ jp2.res = "panic" /\ jp2.build = "debug" /\ jp2.logging
  /\ Len(jp2.boxes) = 3 /\ jp2.last.type = "Header"
  /\ jp2.boxes[3] =
       SuperBox(BOX_TYPE_HEADER, <<ImageHeader, ColourSpecification, ChannelDefinition>>)

\* a JP2 Header superbox with that Channel Definition box is held, and the
\* loop goes on after it, in a debug build without a logger
C28_ChannelTypeRead ==
  /\ jp2.phase = "boxes" /\ jp2.build = "debug" /\ ~jp2.logging
  /\ jp2.header.some /\ contains(jp2.header.met, "ChannelDefinition")

\* a box with an extended length has been read and the loop goes on after it
C28_ExtendedLengthRead ==
  /\ jp2.phase = "boxes" /\ Len(jp2.boxes) = 3 /\ jp2.boxes[3] = ExtendedLength
  /\ jp2.pos = Len(jp2.data) /\ jp2.met = <<"Xml">>

(***************************************************************************)
(* The nodes of a tag tree and their parents.                              *)
(***************************************************************************)
\* the parent of node i (from 1) of level l (the root is level 0)
ParentOf(t, l, i) ==
  node(t, I2(((i - 1) % t.levels[l + 1].width) \div 2,
             ((i - 1) \div t.levels[l + 1].width) \div 2), l - 1)

\* C29: in every reachable state of a tag tree, a node other than the root
\* holds AtLeast(v) or Value(v) only if its parent holds Value(p) with
\* p <= v: a node starts counting only after its parent's minimum is decoded
\* and never holds a bound or a value below that minimum
C29_ChildAboveParent ==
  \A l \in 1..tt.max_depth :
    \A i \in 1..Len(tt.levels[l + 1].nodes) :
      \E n \in {tt.levels[l + 1].nodes[i]}, p \in {ParentOf(tt, l, i)} :
        n.t # "SeeParent" => (p.t = "Value" /\ p.v <= n.v)

\* in a tree of three levels a read has left a leaf with a stored lower
\* bound above the value of its parent, which is above the value of the root
C29_Witness ==
  /\ tt.max_depth = 2 /\ IsTreeRead(ttLast) /\ ttLast.res = "ok"
  /\ LeafNode.t = "AtLeast"
  /\ \E p \in {node(tt, I2(ttLast.leaf.x \div 2, ttLast.leaf.y \div 2), 1)} :
       p.t = "Value" /\ p.v < LeafNode.v /\ node(tt, I2(0, 0), 0).v < p.v

\* a leaf holds a value equal to the value of its parent
C29_Equal ==
  /\ tt.max_depth >= 1 /\ IsTreeRead(ttLast) /\ ttLast.res = "ok"
  /\ LeafNode.t = "Value"
  /\ \E p \in {node(tt, I2(ttLast.leaf.x \div 2, ttLast.leaf.y \div 2), tt.max_depth - 1)} :
       p.t = "Value" /\ p.v = LeafNode.v /\ p.v >= 1

(***************************************************************************)
(* The range of the bit-plane index during decode.                         *)
(***************************************************************************)
\* C30: for a code block with at least one non-zero bit-plane
\* (mb - zero bit-planes >= 1) and any MQ decisions, the bit-plane index
\* stays in 0..mb-1 throughout decode: it is never decremented below 0, and
\* no pass is started on a bit-plane below the least significant one
C30_BitPlaneInRange ==
  (cbPc.phase # "new" /\ ConfigOfBlock.mb - cbPc.zbp >= 1) =>
    /\ cb.bit_plane_shift \in 0..(ConfigOfBlock.mb - 1)
    /\ cbPc.why # "subtract with overflow"

\* a debug build has panicked at the decrement that starts the second
\* significance pass of a block with two non-zero bit-planes
C30_DebugPanics ==
  /\ cbPc.build = "debug" /\ cbPc.phase = "panic" /\ cbPc.why = "subtract with overflow"
  /\ ConfigOfBlock.mb - cbPc.zbp = 2 /\ cbPc.pass_number = 4 /\ cb.bit_plane_shift = 0

\* a release build awaits a decision of a pass on bit-plane 255
C30_ReleaseWraps ==
  /\ cbPc.build = "release" /\ cbPc.phase = "wait" /\ cb.bit_plane_shift = 255
  /\ ConfigOfBlock.mb - cbPc.zbp = 2 /\ cbPc.pass_number >= 4

\* a block with three non-zero bit-planes or more has its seven passes on
\* bit-planes within 0..mb-1
C30_ThreePlanes ==
  (cbPc.phase # "new" /\ ConfigOfBlock.mb - cbPc.zbp >= 3) =>
    /\ cb.bit_plane_shift \in 0..(ConfigOfBlock.mb - 1)
    /\ cbPc.why # "subtract with overflow"

=============================================================================
